---- MODULE Spec2Model ----
(***************************************************************************)
(* Model of the tiered memory store (agent_learning/memory_manager.py) and *)
(* of the learning engine built on it (agent_learning/learning_engine.py). *)
(*                                                                         *)
(* Values.  A Python float importance x is [ty |-> "float", tenths |-> n]  *)
(* with x = n/10; the Decimal the DynamoDB tier stores and returns is      *)
(* [ty |-> "Decimal", tenths |-> n].  None is the string "None".  A text   *)
(* is a sequence of whitespace-separated tokens; a stored content is       *)
(* [form |-> "text", toks |-> <<...>>] or [form |-> "json", obj |-> ...].  *)
(* A datetime is a natural number of clock ticks; its isoformat() string   *)
(* is [iso |-> t].  A metadata dict is named by a string; json.dumps of it *)
(* is [json |-> name].  uuid4 ids are fresh integers; their random sort    *)
(* order inside the DynamoDB partition is the position at which put_item   *)
(* inserts the item into dynamo_table (kept in query order).               *)
(***************************************************************************)
EXTENDS Integers, Sequences, FiniteSets, TLC

\* ------------------------------------------------------------------ bounds
MaxStores == 2          \* store_memory calls per behaviour of Spec
MaxLocalStores == 3     \* store_memory calls per behaviour of SpecLocal
MaxRetStores == 1005    \* store_memory calls per behaviour of SpecRetention
MaxLearn == 2           \* learn_from_conversation calls per behaviour of SpecLearn
MaxFaultyLearn == 1     \* learn_from_conversation calls per behaviour of SpecFaulty
MaxLongLearn == 11      \* learn_from_conversation calls per behaviour of SpecLong
MaxImportanceStores == 2 \* store_memory calls per behaviour of SpecImportance
MaxForeignStores == 2   \* store_memory calls per behaviour of SpecForeign
MaxForeignPuts == 1     \* items another writer puts per behaviour of SpecForeign
MaxDeleteStores == 3    \* store_memory calls per behaviour of SpecDelete
MaxDeleteClock == 5     \* latest day a purge of SpecDelete is called on
MaxWindowStores == 2    \* store_memory calls per behaviour of SpecWindow
MaxTermLearn == 3    \* learn_from_conversation calls per behaviour of SpecTerms
MaxTopicStores == 4    \* store_memory calls per behaviour of SpecTopic
MaxUserWords == 2    \* words of a user message of SpecScore
MaxResponseWords == 3    \* words of a response of SpecScore
MaxStyleWords == 3    \* words of a text of SpecStyle
MaxInsightTexts == 3    \* texts of a list of SpecInsights
MaxReadStores == 2    \* store_memory calls per behaviour of SpecReads

\* ------------------------------------------------------- program constants
LocalCap == 1000        \* entries kept per agent by _store_locally
TtlDays == 365          \* ttl hint written by _store_in_dynamodb
ExcerptWords == 50      \* a response of more words yields an excerpt
ExcerptChars == 500     \* characters of the response the excerpt keeps
PhraseBound == 10       \* learned_phrases kept in a stored snapshot

None == "None"
Agents == {"a1", "a2"}
Users == {None, "u1"}
StoreKinds == {"conversation", "knowledge"}

\* ------------------------------------------------------------ conversions
Float(n) == [ty |-> "float", tenths |-> n]
\* Decimal(str(x)): str() of the float is its shortest decimal repr
ToDecimal(x) == [ty |-> "Decimal", tenths |-> x.tenths]
\* Python ==, float against Decimal: the Decimal is exact, the float is the
\* nearest binary double, so they are equal only when n/10 is a dyadic
\* rational (0.0, 0.5, 1.0 among the tenths)
ExactTenths == {0, 5, 10}
PyEq(x, y) ==
    /\ x.tenths = y.tenths
    /\ (x.ty # y.ty => x.tenths \in ExactTenths)
\* Python >= on two numbers of the same type, or float against Decimal
PyGe(x, y) == x.tenths >= y.tenths
IsoFormat(t) == [iso |-> t]
FromIsoFormat(s) == s.iso
JsonDumpsMeta(m) == [json |-> m]
JsonLoadsMeta(s) == s.json
\* Python truthiness of an Optional[str] argument
Truthy(s) == s # None /\ s # ""
\* x or default
OrElse(x, d) == IF Truthy(x) THEN x ELSE d

\* --------------------------------------------------------- list operations
Max2(a, b) == IF a >= b THEN a ELSE b
Min2(a, b) == IF a <= b THEN a ELSE b
\* Python s[:n], n possibly negative
SliceTo(s, n) ==
    LET k == IF n >= 0 THEN Min2(n, Len(s)) ELSE Max2(Len(s) + n, 0)
    IN  SubSeq(s, 1, k)
\* Python s[-n:] for n > 0
LastN(s, n) == SubSeq(s, Max2(Len(s) - n, 0) + 1, Len(s))
InsertAt(s, pos, x) == SubSeq(s, 1, pos - 1) \o <<x>> \o SubSeq(s, pos, Len(s))
Range(s) == {s[i] : i \in 1..Len(s)}

VARIABLES
    use_aws_memory,      \* MemoryManager.use_aws_memory
    use_bedrock_memory,  \* MemoryManager.use_bedrock_memory
    memory_table,        \* MemoryManager.memory_table: "Table" or None
    local_memories,      \* MemoryManager.local_memories: agent -> list of entries
    dynamo_table,        \* table agent-memories: partition key -> items, in descending sort-key order
    bedrock_events,      \* events created in the Bedrock memory (tier 1)
    written,             \* history: the arguments of every store_memory call, by id
    now,                 \* datetime.utcnow()
    ret,                 \* what the last call returned or raised
    agent_personalities, \* LearningEngine.agent_personalities: the personality cache
    learn                \* the learn_from_conversation call in progress, or the last one

vars == <<use_aws_memory, use_bedrock_memory, memory_table, local_memories,
          dynamo_table, bedrock_events, written, now, ret, agent_personalities, learn>>

\* What a backend call does: it answers, it raises botocore's ClientError, or
\* it raises anything else (EndpointConnectionError, ReadTimeoutError, ...)
Outcomes == {"ok", "ClientError", "OtherError"}

\* uuid.uuid4(): an id no earlier call was given
FreshId == Len(written) + 1

MemoryEntry(id, agent_id, user_id, content, memory_type, importance, timestamp, metadata, tags) ==
    [id |-> id, agent_id |-> agent_id, user_id |-> user_id, content |-> content,
     memory_type |-> memory_type, importance |-> importance,
     timestamp |-> timestamp, metadata |-> metadata, tags |-> tags]

\* ------------------------------------------------------------- store path
\* Mutant of StoreLocally: the trim keeps the oldest entries, [:1000]
StoreLocallyKeepOldest(lm, entry) ==
    LET a == entry.agent_id
        old == IF a \in DOMAIN lm THEN lm[a] ELSE <<>>
        app == Append(old, entry)
    IN  [x \in (DOMAIN lm) \cup {a} |-> IF x = a THEN SliceTo(app, LocalCap) ELSE lm[x]]

StoreLocally(lm, entry) ==
    LET a == entry.agent_id
        old == IF a \in DOMAIN lm THEN lm[a] ELSE <<>>
        app == Append(old, entry)
        kept == IF Len(app) > LocalCap THEN LastN(app, LocalCap) ELSE app
    IN  [x \in (DOMAIN lm) \cup {a} |-> IF x = a THEN kept ELSE lm[x]]

\* The Item put_item is given
DynamoItem(entry, t) ==
    [memory_id |-> entry.id, agent_id |-> entry.agent_id,
     user_id |-> OrElse(entry.user_id, "anonymous"), content |-> entry.content,
     memory_type |-> entry.memory_type, importance |-> ToDecimal(entry.importance),
     timestamp |-> IsoFormat(entry.timestamp),
     metadata |-> JsonDumpsMeta(entry.metadata), tags |-> entry.tags,
     ttl |-> t + TtlDays]

\* put_item: the item joins its partition where its sort key (the uuid) falls
PutItem(tbl, item, pos) ==
    [tbl EXCEPT ![item.agent_id] = InsertAt(@, Min2(pos, Len(@) + 1), item)]

\* A store result: the tiers as the call leaves them, whether it raised, and
\* the tiers whose write was attempted, in order
StoreResult(raised, lm, tbl, bev, tiers) ==
    [raised |-> raised, local |-> lm, table |-> tbl, bedrock |-> bev, tiers |-> tiers]

\* Mutant of StoreInDynamodb: an entry the table took is logged in-process too
StoreInDynamodbAndLocally(lm, tbl, bev, entry, o2, pos, tried) ==
    IF memory_table = None
    THEN StoreResult(FALSE, StoreLocally(lm, entry), tbl, bev, tried \o <<"local">>)
    ELSE CASE o2 = "ok" ->
                StoreResult(FALSE, StoreLocally(lm, entry),
                            PutItem(tbl, DynamoItem(entry, now), pos), bev,
                            tried \o <<"dynamo">>)
           [] o2 = "ClientError" ->
                StoreResult(FALSE, StoreLocally(lm, entry), tbl, bev,
                            tried \o <<"dynamo", "local">>)
           [] OTHER ->
                StoreResult(TRUE, lm, tbl, bev, tried \o <<"dynamo">>)

StoreInDynamodb(lm, tbl, bev, entry, o2, pos, tried) ==
    IF memory_table = None
    THEN StoreResult(FALSE, StoreLocally(lm, entry), tbl, bev, tried \o <<"local">>)
    ELSE CASE o2 = "ok" ->
                StoreResult(FALSE, lm, PutItem(tbl, DynamoItem(entry, now), pos), bev,
                            tried \o <<"dynamo">>)
           [] o2 = "ClientError" ->
                StoreResult(FALSE, StoreLocally(lm, entry), tbl, bev,
                            tried \o <<"dynamo", "local">>)
           [] OTHER ->
                StoreResult(TRUE, lm, tbl, bev, tried \o <<"dynamo">>)

StoreInBedrockMemory(lm, tbl, bev, entry, o1, o2, pos) ==
    IF o1 = "ok"
    THEN StoreResult(FALSE, lm, tbl, Append(bev, entry), <<"bedrock">>)
    ELSE StoreInDynamodb(lm, tbl, bev, entry, o2, pos, <<"bedrock">>)

\* store_memory on the tiers (lm, tbl, bev); o1, o2 are what create_event and
\* put_item do, pos is where the new uuid sorts among the stored ones
StoreMemory(lm, tbl, bev, entry, o1, o2, pos) ==
    IF use_aws_memory /\ use_bedrock_memory
    THEN StoreInBedrockMemory(lm, tbl, bev, entry, o1, o2, pos)
    ELSE IF use_aws_memory
    THEN StoreInDynamodb(lm, tbl, bev, entry, o2, pos, <<>>)
    ELSE StoreResult(FALSE, StoreLocally(lm, entry), tbl, bev, <<"local">>)

\* ---------------------------------------------------------- retrieve path
\* The three filters of _retrieve_locally
MatchesLocally(m, memory_type, user_id, importance_threshold) ==
    /\ ~(Truthy(memory_type) /\ m.memory_type # memory_type)
    /\ ~(Truthy(user_id) /\ m.user_id # user_id)
    /\ ~(m.importance.tenths < importance_threshold.tenths)

\* Mutant of InsertDesc: an ascending sort reversed, which turns ties around
InsertDescTiesReversed(sorted, x) ==
    LET before == {i \in 1..Len(sorted) : sorted[i].timestamp > x.timestamp}
    IN  InsertAt(sorted, Cardinality(before) + 1, x)

\* list.sort(key=timestamp, reverse=True): descending and stable
InsertDesc(sorted, x) ==
    LET before == {i \in 1..Len(sorted) : sorted[i].timestamp >= x.timestamp}
    IN  InsertAt(sorted, Cardinality(before) + 1, x)

RECURSIVE SortByTimestampDesc(_)
SortByTimestampDesc(s) ==
    IF s = <<>> THEN <<>>
    ELSE InsertDesc(SortByTimestampDesc(SubSeq(s, 1, Len(s) - 1)), s[Len(s)])

RetrieveResult(raised, entries, tiers) ==
    [raised |-> raised, entries |-> entries, tiers |-> tiers]

RetrieveLocally(agent_id, memory_type, user_id, limit, importance_threshold) ==
    IF agent_id \notin DOMAIN local_memories THEN <<>>
    ELSE LET filtered == SelectSeq(local_memories[agent_id],
                 LAMBDA m : MatchesLocally(m, memory_type, user_id, importance_threshold))
         IN  SliceTo(SortByTimestampDesc(filtered), limit)

\* memory_table.query: the partition of agent_id, newest sort key first; Limit
\* bounds the items read, FilterExpression is applied to the items read
DynamoQuery(agent_id, threshold, limit) ==
    SelectSeq(SliceTo(dynamo_table[agent_id], limit),
              LAMBDA item : PyGe(item.importance, threshold))

\* The MemoryEntry built from one returned item
EntryOfItem(item) ==
    MemoryEntry(item.memory_id, item.agent_id, item.user_id, item.content,
                item.memory_type, item.importance, FromIsoFormat(item.timestamp),
                JsonLoadsMeta(item.metadata), item.tags)

\* The item's strings can be read back: datetime.fromisoformat(timestamp) and
\* json.loads(metadata) raise ValueError on any other text, inside the loop
\* and outside any handler but the one for ClientError
Deserializable(item) ==
    /\ "iso" \in DOMAIN item.timestamp
    /\ "json" \in DOMAIN item.metadata

MapEntryOfItem(items) == [i \in 1..Len(items) |-> EntryOfItem(items[i])]

\* Mutant of RetrieveFromDynamodb: a query that failed is sent once more
RetrieveFromDynamodbRetrying(agent_id, memory_type, user_id, limit, importance_threshold, o2, tried) ==
    IF memory_table = None
    THEN RetrieveResult(FALSE,
             RetrieveLocally(agent_id, memory_type, user_id, limit, importance_threshold),
             tried \o <<"local">>)
    ELSE CASE o2 = "ok" ->
                LET items == DynamoQuery(agent_id, ToDecimal(importance_threshold), limit)
                IN  IF \A i \in 1..Len(items) : Deserializable(items[i])
                    THEN RetrieveResult(FALSE, MapEntryOfItem(items), tried \o <<"dynamo">>)
                    ELSE RetrieveResult(TRUE, <<>>, tried \o <<"dynamo">>)
           [] o2 = "ClientError" ->
                RetrieveResult(FALSE,
                    RetrieveLocally(agent_id, memory_type, user_id, limit, importance_threshold),
                    tried \o <<"dynamo", "dynamo", "local">>)
           [] OTHER ->
                RetrieveResult(TRUE, <<>>, tried \o <<"dynamo">>)

RetrieveFromDynamodb(agent_id, memory_type, user_id, limit, importance_threshold, o2, tried) ==
    IF memory_table = None
    THEN RetrieveResult(FALSE,
             RetrieveLocally(agent_id, memory_type, user_id, limit, importance_threshold),
             tried \o <<"local">>)
    ELSE CASE o2 = "ok" ->
                LET items == DynamoQuery(agent_id, ToDecimal(importance_threshold), limit)
                IN  IF \A i \in 1..Len(items) : Deserializable(items[i])
                    THEN RetrieveResult(FALSE, MapEntryOfItem(items), tried \o <<"dynamo">>)
                    ELSE RetrieveResult(TRUE, <<>>, tried \o <<"dynamo">>)
           [] o2 = "ClientError" ->
                RetrieveResult(FALSE,
                    RetrieveLocally(agent_id, memory_type, user_id, limit, importance_threshold),
                    tried \o <<"dynamo", "local">>)
           [] OTHER ->
                RetrieveResult(TRUE, <<>>, tried \o <<"dynamo">>)

\* retrieve_and_generate returns citations of a knowledge base, none of which
\* create_event wrote: an answer without citations gives the empty list
RetrieveFromBedrockMemory(agent_id, memory_type, user_id, limit, importance_threshold, o1, o2) ==
    IF o1 = "ok"
    THEN RetrieveResult(FALSE, <<>>, <<"bedrock">>)
    ELSE RetrieveFromDynamodb(agent_id, memory_type, user_id, limit,
                              importance_threshold, o2, <<"bedrock">>)

RetrieveMemories(agent_id, memory_type, user_id, limit, importance_threshold, o1, o2) ==
    IF use_aws_memory /\ use_bedrock_memory
    THEN RetrieveFromBedrockMemory(agent_id, memory_type, user_id, limit,
                                   importance_threshold, o1, o2)
    ELSE IF use_aws_memory
    THEN RetrieveFromDynamodb(agent_id, memory_type, user_id, limit,
                              importance_threshold, o2, <<>>)
    ELSE RetrieveResult(FALSE,
             RetrieveLocally(agent_id, memory_type, user_id, limit, importance_threshold),
             <<"local">>)

\* ------------------------------------------------------------------ texts
\* A text is the sequence of its whitespace-separated tokens, so that
\* len(text.split()) is Len(text).  The tables below give, for the tokens the
\* sample messages use, what the code's string operations see in them.

\* str.lower() of one token
LowerTok(tok) ==
    CASE tok = "API" -> "api"
      [] tok = "Hey" -> "hey"
      [] tok = "Database" -> "database"
      [] tok = "Yes" -> "yes"
      [] tok = "User:" -> "user:"
      [] tok = "Agent:" -> "agent:"
      [] OTHER -> tok
Lower(text) == [i \in 1..Len(text) |-> LowerTok(text[i])]

\* The keywords that are substrings of a (lowercased) token: kw in text
SubWords(tok) ==
    CASE tok = "database" -> {"database", "data"}
      [] tok = "works?" -> {"works?"}
      [] tok = "nosql" -> {"nosql", "sql", "no"}
      [] tok = "personality_traits" -> {"personality_traits", "ai"}
      [] tok = "email" -> {"email", "ai"}
      [] tok = "classmethod" -> {"classmethod", "class", "method"}
      [] OTHER -> {tok}
\* kw in text, for a keyword without a blank
Occurs(kw, text) == \E i \in 1..Len(text) : kw \in SubWords(text[i])
\* The words of a token between regex word boundaries (\b)
BoundedWords(tok) ==
    CASE tok = "works?" -> {"works"}
      [] tok = "https://x" -> {"https", "x"}
      [] tok \in {"[fence]", "..."} -> {}
      [] OTHER -> {tok}
\* The characters and markers the code tests for
HasQuestionMark(text) == \E i \in 1..Len(text) : text[i] \in {"works?", "?"}
HasExclamation(text) == \E i \in 1..Len(text) : text[i] \in {"!", "great!"}
\* "[fence]" stands for the three backquotes of a code fence
IsFence(tok) == tok = "[fence]"
IsUrl(tok) == tok \in {"https://x", "http://y"}
\* len() of a token, in characters
TokLen(tok) ==
    CASE tok \in {"w", "?", "!"} -> 1
      [] tok \in {"ok", "hi"} -> 2
      [] tok \in {"hey", "the", "fix", "api", "API", "use", "see", "yes", "Yes", "you", "[fence]", "..."} -> 3
      [] tok \in {"code"} -> 4
      [] tok \in {"there", "User:"} -> 5
      [] tok \in {"please", "works?", "Agent:", "mobile"} -> 6
      [] tok \in {"database", "Database"} -> 8
      [] tok \in {"https://x"} -> 9
      [] tok \in {"sql", "aws"} -> 3
      [] tok \in {"node"} -> 4
      [] tok \in {"server", "client", "python", "docker"} -> 6
      [] tok \in {"backend"} -> 7
      [] tok \in {"frontend", "security"} -> 8
      [] tok \in {"javascript", "kubernetes", "deployment"} -> 10
      [] tok \in {"scalability", "performance", "classmethod"} -> 11
      [] tok \in {"architecture"} -> 12
      [] tok \in {"microservices", "authorization"} -> 13
      [] tok \in {"authentication"} -> 14
      [] OTHER -> 5
RECURSIVE CharLen(_)
\* len(text): the tokens and one blank between two tokens
CharLen(text) ==
    IF text = <<>> THEN 0
    ELSE IF Len(text) = 1 THEN TokLen(text[1])
    ELSE TokLen(text[1]) + 1 + CharLen(Tail(text))
\* text[:n]: the tokens that fit into n characters, a token cut in two being dropped
RECURSIVE TakeChars(_, _)
TakeChars(text, n) ==
    IF text = <<>> \/ TokLen(text[1]) > n THEN <<>>
    ELSE <<text[1]>> \o TakeChars(Tail(text), n - TokLen(text[1]) - 1)

\* Exact rationals for the float scores: n/d in lowest terms
RECURSIVE Gcd(_, _)
Gcd(a, b) == IF b = 0 THEN a ELSE Gcd(b, a % b)
Frac(n, d) == [n |-> n \div Gcd(n, d), d |-> d \div Gcd(n, d)]
FracAdd(x, y) == Frac(x.n * y.d + y.n * x.d, x.d * y.d)
RECURSIVE FracSum(_)
FracSum(s) == IF s = <<>> THEN Frac(0, 1) ELSE FracAdd(s[1], FracSum(Tail(s)))
\* np.mean of a non-empty list
Mean(s) == LET t == FracSum(s) IN Frac(t.n, t.d * Len(s))

\* The keywords of seq, in its order, that occur in the text
OccurringIn(seq, text) == SelectSeq(seq, LAMBDA kw : Occurs(kw, text))
CountOccurring(set, text) == Cardinality({kw \in set : Occurs(kw, text)})

\* kw in text, for a keyword of two words
OccursPair(kw, text) ==
    \E i \in 1..(Len(text) - 1) : text[i] = kw[1] /\ text[i + 1] = kw[2]
CountPairs(set, text) == Cardinality({kw \in set : OccursPair(kw, text)})
\* sum of len(re.findall(r'\b(w1|w2|...)\b', text)) for the single words
RECURSIVE CountWords(_, _)
CountWords(words, text) ==
    IF text = <<>> THEN 0
    ELSE Cardinality(BoundedWords(text[1]) \cap words) + CountWords(words, Tail(text))
CountWordPairs(pairs, text) ==
    Cardinality({i \in 1..(Len(text) - 1) : <<text[i], text[i + 1]>> \in pairs})

\* --------------------------------------------------------- style analyzer
FormalWords ==
    {"please", "appreciate", "regards", "sincerely", "would", "could", "should",
     "might", "however", "therefore", "furthermore", "moreover", "utilize",
     "implement", "facilitate", "endeavor"}
FormalPairs == {<<"thank", "you">>}
CasualWords ==
    {"hey", "hi", "hello", "yo", "yeah", "yep", "nope", "nah", "cool", "awesome",
     "great", "nice", "btw", "fyi", "imo", "tbh", "lol", "haha", "lmao"}
TechnicalVocabulary ==
    {"code", "function", "variable", "class", "method", "algorithm",
     "html", "css", "javascript", "react", "angular", "vue",
     "api", "server", "database", "sql", "nosql", "rest",
     "aws", "azure", "gcp", "docker", "kubernetes", "deployment",
     "ios", "android", "flutter", "swift", "kotlin",
     "model", "training", "inference"}
TechnicalVocabularyPairs ==
    {<<"react", "native">>, <<"machine", "learning">>, <<"neural", "network">>}
FriendlyIndicators == {"great", "awesome", "cool", "nice", "good", "excellent", "wonderful"}
ProfessionalIndicators == {"please", "regards", "sincerely", "appreciate"}
ProfessionalPairs == {<<"thank", "you">>}
TechnicalIndicators == {"api", "database", "server", "code", "function", "algorithm"}
PersonalityIndicators ==
    <<[trait |-> "detail_oriented",
       words |-> {"specifically", "precisely", "exactly", "detailed", "thorough"}],
      [trait |-> "collaborative",
       words |-> {"team", "together", "collaborate", "discuss", "input"}],
      [trait |-> "solution_focused",
       words |-> {"solution", "fix", "resolve", "solve", "address"}],
      [trait |-> "creative",
       words |-> {"creative", "innovative", "unique", "different", "approach"}],
      [trait |-> "analytical",
       words |-> {"analyze", "data", "metrics", "measure", "evaluate"}]>>

\* Mutant of AnalyzeFormality: a text without a pattern is scored as casual
AnalyzeFormalityZeroDefault(text) ==
    LET formal_count == CountWords(FormalWords, text) + CountWordPairs(FormalPairs, text)
        casual_count == CountWords(CasualWords, text)
        total_patterns == formal_count + casual_count
    IN  IF total_patterns = 0 THEN Frac(0, 1) ELSE Frac(formal_count, total_patterns)
\* _analyze_formality, of a lowercased text
AnalyzeFormality(text) ==
    LET formal_count == CountWords(FormalWords, text) + CountWordPairs(FormalPairs, text)
        casual_count == CountWords(CasualWords, text)
        total_patterns == formal_count + casual_count
    IN  IF total_patterns = 0 THEN Frac(1, 2) ELSE Frac(formal_count, total_patterns)

\* Mutant of DepthOfCount: high needs more than 5 terms
DepthOfCountAboveFive(total_tech_terms) ==
    IF total_tech_terms > 5 THEN "high"
    ELSE IF total_tech_terms >= 2 THEN "medium" ELSE "low"
DepthOfCount(total_tech_terms) ==
    IF total_tech_terms >= 5 THEN "high"
    ELSE IF total_tech_terms >= 2 THEN "medium" ELSE "low"

AnalyzeTechnicalDepth(text) ==
    DepthOfCount(CountOccurring(TechnicalVocabulary, text)
                 + CountPairs(TechnicalVocabularyPairs, text))

AnalyzeResponseLength(text) ==
    IF Len(text) <= 20 THEN "short" ELSE IF Len(text) <= 100 THEN "medium" ELSE "long"

\* Mutant of AnalyzeCommunicationTone: technical wins its ties
AnalyzeCommunicationToneTiesTechnical(text) ==
    LET friendly_count == CountOccurring(FriendlyIndicators, text)
        professional_count == CountOccurring(ProfessionalIndicators, text)
                              + CountPairs(ProfessionalPairs, text)
        technical_count == CountOccurring(TechnicalIndicators, text)
    IN  IF technical_count >= friendly_count /\ technical_count >= professional_count
        THEN "technical"
        ELSE IF professional_count > friendly_count THEN "professional" ELSE "friendly"
AnalyzeCommunicationTone(text) ==
    LET friendly_count == CountOccurring(FriendlyIndicators, text)
        professional_count == CountOccurring(ProfessionalIndicators, text)
                              + CountPairs(ProfessionalPairs, text)
        technical_count == CountOccurring(TechnicalIndicators, text)
    IN  IF technical_count > friendly_count /\ technical_count > professional_count
        THEN "technical"
        ELSE IF professional_count > friendly_count THEN "professional" ELSE "friendly"

\* The sample tokens hold no list marker, inline code or emoji
ExtractCommonPatterns(text) ==
    (IF HasQuestionMark(text) THEN <<"asks_questions">> ELSE <<>>)
    \o (IF HasExclamation(text) THEN <<"uses_exclamations">> ELSE <<>>)
    \o (IF \E i \in 1..Len(text) : IsFence(text[i]) THEN <<"includes_code">> ELSE <<>>)
    \o (IF \E i \in 1..Len(text) : IsUrl(text[i]) THEN <<"shares_links">> ELSE <<>>)

AnalyzePersonalityTraits(text) ==
    LET found == SelectSeq(PersonalityIndicators,
                           LAMBDA t : CountOccurring(t.words, text) >= 2)
    IN  [i \in 1..Len(found) |-> found[i].trait]

\* analyze_style, as the dict _analyze_communication_patterns builds from it
AnalyzeStyle(text) ==
    [formality_score |-> AnalyzeFormality(Lower(text)),
     technical_depth |-> AnalyzeTechnicalDepth(Lower(text)),
     response_length |-> AnalyzeResponseLength(text),
     communication_tone |-> AnalyzeCommunicationTone(Lower(text)),
     common_patterns |-> ExtractCommonPatterns(Lower(text)),
     personality_traits |-> AnalyzePersonalityTraits(Lower(text))]

\* max(set(values), key=values.count): the set is iterated in the order its
\* string hashes give, which the interpreter draws anew for every process, and
\* max keeps the first element of that iteration with the highest count
CountOf(values, v) == Cardinality({i \in 1..Len(values) : values[i] = v})
MostCommonValue(values, hash_order) ==
    LET iteration == SelectSeq(hash_order, LAMBDA v : \E i \in 1..Len(values) : values[i] = v)
        best == {i \in 1..Len(iteration) :
                    \A j \in 1..Len(iteration) :
                       CountOf(values, iteration[j]) <= CountOf(values, iteration[i])}
    IN  iteration[CHOOSE i \in best : \A j \in best : i <= j]
\* The elements of the lists of a list, as list(set(...)) holds them
UnionOf(lists) == UNION {{lists[i][j] : j \in 1..Len(lists[i])} : i \in 1..Len(lists)}
\* extract_learning_insights(conversations) in a process whose string hashes
\* iterate the values of each dimension in the order hash_order gives
ExtractLearningInsights(conversations, hash_order) ==
    IF conversations = <<>> THEN [empty |-> TRUE]
    ELSE LET analyses == [i \in 1..Len(conversations) |-> AnalyzeStyle(conversations[i])]
             tech_depths == [i \in 1..Len(analyses) |-> analyses[i].technical_depth]
             response_lengths == [i \in 1..Len(analyses) |-> analyses[i].response_length]
             tones == [i \in 1..Len(analyses) |-> analyses[i].communication_tone]
         IN  [empty |-> FALSE,
              avg_formality |-> Mean([i \in 1..Len(analyses) |-> analyses[i].formality_score]),
              preferred_technical_depth |-> MostCommonValue(tech_depths, hash_order.depth),
              preferred_response_length |-> MostCommonValue(response_lengths, hash_order.length),
              preferred_tone |-> MostCommonValue(tones, hash_order.tone),
              common_patterns |->
                 UnionOf([i \in 1..Len(analyses) |-> analyses[i].common_patterns]),
              personality_traits |->
                 UnionOf([i \in 1..Len(analyses) |-> analyses[i].personality_traits]),
              conversation_count |-> Len(conversations)]

\* -------------------------------------------------------- learning engine
\* JSON null inside a json.dumps content
JsonNull == [py |-> "None"]

\* tech_terms of _extract_technical_terms, in list order
ExtractTerms ==
    <<"api", "database", "server", "client", "frontend", "backend",
      "react", "node", "python", "javascript", "sql", "aws", "cloud",
      "docker", "kubernetes", "microservices", "architecture", "deployment",
      "scalability", "performance", "security", "authentication", "authorization">>
\* tech_terms of _count_technical_terms
CountTerms ==
    {"api", "database", "server", "client", "frontend", "backend",
     "react", "node", "python", "javascript", "sql", "aws", "cloud",
     "docker", "kubernetes", "microservices", "architecture"}

ExtractTechnicalTerms(text) == OccurringIn(ExtractTerms, Lower(text))
CountTechnicalTerms(text) == CountOccurring(CountTerms, Lower(text))
AssessTechnicalDepth(user_message, agent_response) ==
    DepthOfCount(CountTechnicalTerms(user_message) + CountTechnicalTerms(agent_response))

\* The score as the float additions that build it, in tenths: 0.5 (+ 0.2) (+ 0.2) (+ 0.1)
AssessResponseEffectiveness(user_message, agent_response) ==
    LET user_length == Max2(Len(user_message), 1)
        response_length == Len(agent_response)
    IN  [ty |-> "float", addends |->
            <<5>>
            \o (IF user_length <= 2 * response_length /\ response_length <= 2 * user_length
                THEN <<2>> ELSE <<>>)
            \o (IF CountTechnicalTerms(user_message) > 0
                   /\ CountTechnicalTerms(agent_response) > 0
                THEN <<2>> ELSE <<>>)
            \o (IF HasQuestionMark(user_message)
                   /\ (Occurs("yes", Lower(agent_response)) \/ Occurs("no", Lower(agent_response)))
                THEN <<1>> ELSE <<>>)]

\* The IEEE-754 double the additions score = 0.5; score += 0.2; score += 0.1
\* leave: the double nearest tenths/10, or the below-th double under it.
\* 0.5 + 0.2 and 0.5 + 0.1 are the doubles nearest 0.7 and 0.6; a further
\* addition rounds to the double just under 0.9, 0.8 and 1.0
FloatSum(addends) ==
    CASE addends = <<5>> -> [ty |-> "float", tenths |-> 5, below |-> 0]
      [] addends = <<5, 2>> -> [ty |-> "float", tenths |-> 7, below |-> 0]
      [] addends = <<5, 1>> -> [ty |-> "float", tenths |-> 6, below |-> 0]
      [] addends = <<5, 2, 2>> -> [ty |-> "float", tenths |-> 9, below |-> 1]
      [] addends = <<5, 2, 1>> -> [ty |-> "float", tenths |-> 8, below |-> 1]
      [] addends = <<5, 2, 2, 1>> -> [ty |-> "float", tenths |-> 10, below |-> 1]
\* min(score, 1.0): the score unless it is above 1.0
MinWithOne(score) ==
    IF score.tenths > 10 \/ (score.tenths = 10 /\ score.below = 0)
    THEN [ty |-> "float", tenths |-> 10, below |-> 0] ELSE score
\* The float _assess_response_effectiveness returns
EffectivenessScore(user_message, agent_response) ==
    MinWithOne(FloatSum(AssessResponseEffectiveness(user_message, agent_response).addends))

\* A phrase "w1 w2" is the pair of its words
ExtractCommonPhrases(text) ==
    LET words == Lower(text)
        all == [i \in 1..(Len(words) - 1) |-> <<words[i], words[i + 1]>>]
        phrases == SelectSeq(all, LAMBDA ph : TokLen(ph[1]) + 1 + TokLen(ph[2]) > 5)
    IN  SliceTo(phrases, 5)

\* communication_style: the dict {} has no key; the engine's own updates give
\* it the keys formality and avg_formality
EmptyStyle == [has |-> FALSE, formality |-> <<>>, avg_formality |-> Frac(0, 1)]
\* Mutant of UpdateCommunicationStyle: the mean is taken before the list is cut
UpdateCommunicationStyleMeanOfAll(current_style, user_message) ==
    LET formality_score == AnalyzeFormality(Lower(user_message))
        app == Append(IF current_style.has THEN current_style.formality ELSE <<>>,
                      formality_score)
        kept == IF Len(app) > 10 THEN LastN(app, 10) ELSE app
    IN  [has |-> TRUE, formality |-> kept, avg_formality |-> Mean(app)]
UpdateCommunicationStyle(current_style, user_message) ==
    LET formality_score == AnalyzeFormality(Lower(user_message))
        app == Append(IF current_style.has THEN current_style.formality ELSE <<>>,
                      formality_score)
        kept == IF Len(app) > 10 THEN LastN(app, 10) ELSE app
    IN  [has |-> TRUE, formality |-> kept, avg_formality |-> Mean(kept)]

\* technical_preferences: {} has no key; preferred_terms is a collections.Counter
\* while the engine built it and a plain dict when json.loads built it
EmptyPrefs == [has |-> FALSE, ty |-> "none", terms |-> <<>>]
HasTerm(terms, term) == \E i \in 1..Len(terms) : terms[i].term = term
\* preferred_terms[term] += 1 where the key exists or the mapping is a Counter
Incr(terms, term) ==
    IF HasTerm(terms, term)
    THEN LET i == CHOOSE i \in 1..Len(terms) : terms[i].term = term
         IN  [terms EXCEPT ![i].count = @ + 1]
    ELSE Append(terms, [term |-> term, count |-> 1])
\* The loop over tech_terms: a plain dict raises KeyError at the first new term,
\* keeping the increments made before it
RECURSIVE IncrAll(_, _, _)
IncrAll(terms, tech_terms, ty) ==
    IF tech_terms = <<>> THEN [raised |-> FALSE, terms |-> terms]
    ELSE IF ty = "dict" /\ ~HasTerm(terms, tech_terms[1])
    THEN [raised |-> TRUE, terms |-> terms]
    ELSE IncrAll(Incr(terms, tech_terms[1]), Tail(tech_terms), ty)
RECURSIVE InsertByCount(_, _)
InsertByCount(sorted, x) ==
    IF sorted = <<>> THEN <<x>>
    ELSE IF sorted[1].count >= x.count THEN <<sorted[1]>> \o InsertByCount(Tail(sorted), x)
    ELSE <<x>> \o sorted
RECURSIVE SortByCount(_)
SortByCount(terms) ==
    IF terms = <<>> THEN <<>>
    ELSE InsertByCount(SortByCount(SubSeq(terms, 1, Len(terms) - 1)), terms[Len(terms)])
\* Mutant of MostCommon: among equal counts the term counted last comes first
RECURSIVE InsertBeforeEqual(_, _)
InsertBeforeEqual(sorted, x) ==
    IF sorted = <<>> THEN <<x>>
    ELSE IF sorted[1].count > x.count THEN <<sorted[1]>> \o InsertBeforeEqual(Tail(sorted), x)
    ELSE <<x>> \o sorted
RECURSIVE SortLatestFirst(_)
SortLatestFirst(terms) ==
    IF terms = <<>> THEN <<>>
    ELSE InsertBeforeEqual(SortLatestFirst(SubSeq(terms, 1, Len(terms) - 1)), terms[Len(terms)])
MostCommonLatestFirst(terms, n) == SliceTo(SortLatestFirst(terms), n)
\* Counter.most_common(n): by count, descending, equal counts in insertion order
MostCommon(terms, n) == SliceTo(SortByCount(terms), n)

\* _update_technical_preferences: the dict as the call leaves it, and whether
\* the call raised (KeyError in the loop, AttributeError at most_common)
UpdateTechnicalPreferences(current_prefs, user_message) ==
    LET tech_terms == ExtractTechnicalTerms(user_message)
        ty == IF current_prefs.has THEN current_prefs.ty ELSE "Counter"
        start == IF current_prefs.has THEN current_prefs.terms ELSE <<>>
        loop == IncrAll(start, tech_terms, ty)
    IN  IF loop.raised \/ ty = "dict"
        THEN [raised |-> TRUE, prefs |-> [has |-> TRUE, ty |-> ty, terms |-> loop.terms]]
        ELSE [raised |-> FALSE,
              prefs |-> [has |-> TRUE, ty |-> "Counter", terms |-> MostCommon(loop.terms, 20)]]

\* json.dumps writes a Counter as an object, which json.loads reads as a dict
JsonPrefs(prefs) == IF prefs.has THEN [prefs EXCEPT !.ty = "dict"] ELSE prefs

\* loaded_from is history: the kind of the stored entry _get_agent_personality
\* built the object from, None for an object the engine created
AgentPersonality(agent_id, communication_style, technical_preferences, learned_phrases, last_updated, loaded_from) ==
    [agent_id |-> agent_id, loaded_from |-> loaded_from, communication_style |-> communication_style,
     technical_preferences |-> technical_preferences, response_patterns |-> "{}",
     learned_phrases |-> learned_phrases, expertise_areas |-> <<>>,
     last_updated |-> last_updated]

\* The dict _update_agent_personality dumps
PersonalitySnapshot(personality) ==
    [communication_style |-> personality.communication_style,
     technical_preferences |-> JsonPrefs(personality.technical_preferences),
     learned_phrases |-> LastN(personality.learned_phrases, PhraseBound),
     expertise_areas |-> personality.expertise_areas]

\* Mutant of UpdatePersonality: a step that raises takes the agent's
\* personality out of the cache
UpdatePersonalityDropOnError(cache, agent_id, user_message, t) ==
    LET p == IF agent_id \in DOMAIN cache THEN cache[agent_id]
             ELSE AgentPersonality(agent_id, EmptyStyle, EmptyPrefs, <<>>, t, None)
        tp == UpdateTechnicalPreferences(p.technical_preferences, user_message)
        q == [p EXCEPT !.learned_phrases = @ \o ExtractCommonPhrases(user_message),
                       !.communication_style = UpdateCommunicationStyle(@, user_message),
                       !.technical_preferences = tp.prefs,
                       !.last_updated = IF tp.raised THEN @ ELSE t]
    IN  [raised |-> tp.raised,
         cache |-> IF tp.raised
                   THEN [a \in (DOMAIN cache) \ {agent_id} |-> cache[a]]
                   ELSE [a \in (DOMAIN cache) \cup {agent_id} |->
                            IF a = agent_id THEN q ELSE cache[a]]]

\* _update_agent_personality up to its store: the cache as the step leaves
\* it, and whether the step raised before reaching the store
UpdatePersonality(cache, agent_id, user_message, t) ==
    LET p == IF agent_id \in DOMAIN cache THEN cache[agent_id]
             ELSE AgentPersonality(agent_id, EmptyStyle, EmptyPrefs, <<>>, t, None)
        tp == UpdateTechnicalPreferences(p.technical_preferences, user_message)
        q == [p EXCEPT !.learned_phrases = @ \o ExtractCommonPhrases(user_message),
                       !.communication_style = UpdateCommunicationStyle(@, user_message),
                       !.technical_preferences = tp.prefs,
                       !.last_updated = IF tp.raised THEN @ ELSE t]
    IN  [raised |-> tp.raised,
         cache |-> [a \in (DOMAIN cache) \cup {agent_id} |->
                       IF a = agent_id THEN q ELSE cache[a]]]

\* The positions of the code fences, and the fenced blocks the non-greedy
\* pattern matches: first with second fence, third with fourth, ...
FencePositions(text) ==
    SelectSeq([i \in 1..Len(text) |-> i], LAMBDA i : IsFence(text[i]))
CodeMatches(text) ==
    LET fp == FencePositions(text)
    IN  [k \in 1..(Len(fp) \div 2) |-> SubSeq(text, fp[2 * k - 1], fp[2 * k])]
UrlMatches(text) ==
    LET at == SelectSeq([i \in 1..Len(text) |-> i], LAMBDA i : IsUrl(text[i]))
    IN  [k \in 1..Len(at) |-> <<text[at[k]]>>]

\* ------------------------------------------------------ the store's callers
TextContent(toks) == [form |-> "text", toks |-> toks]
JsonContent(obj) == [form |-> "json", obj |-> obj]

\* Arguments of the store_memory and retrieve_memories calls
ContentOfKind(kind) ==
    IF kind = "conversation" THEN TextContent(<<"User:", "hey", "Agent:", "ok">>)
    ELSE TextContent(<<"https://x">>)
TagsOfKind(kind) == IF kind = "knowledge" THEN <<"reference", "external">> ELSE <<>>
StoreArg(agent_id, memory_type, user_id, tenths) ==
    [agent_id |-> agent_id, memory_type |-> memory_type, user_id |-> user_id,
     importance |-> Float(tenths)]
StoreArgs ==
    {StoreArg("a1", "conversation", "u1", 7), StoreArg("a1", "knowledge", None, 5),
     StoreArg("a1", "conversation", None, 5), StoreArg("a2", "conversation", "u1", 7)}
RetentionArgs == {StoreArg("a1", "conversation", "u1", 7)}
Thresholds == {Float(0), Float(7)}
Limits == 1..2           \* DynamoDB's Query takes a Limit of at least 1
LocalLimits == 0..2
QueryKinds == {None, "conversation"}
QueryAgents == {"a1"}

Configs == {<<FALSE, None>>, <<TRUE, None>>, <<TRUE, "Table">>}

NoCall == [op |-> "none"]
NoLearn == [pc |-> "idle", n |-> 0]

InitWith(configs) ==
    /\ \E c \in configs : use_aws_memory = c[1] /\ memory_table = c[2]
    /\ use_bedrock_memory = FALSE
    /\ local_memories = [a \in {} |-> <<>>]
    /\ dynamo_table = [a \in Agents |-> <<>>]
    /\ bedrock_events = <<>>
    /\ written = <<>>
    /\ now = 0
    /\ ret = NoCall
    /\ agent_personalities = [a \in {} |-> NoCall]
    /\ learn = NoLearn

\* MemoryManager(use_aws_memory), with or without a DynamoDB resource
Init == InitWith(Configs)

\* The backend outcomes a call can meet: a tier that is not called has none
Tier1Outcomes == IF use_aws_memory /\ use_bedrock_memory THEN Outcomes ELSE {"ok"}
Tier2Outcomes == IF use_aws_memory /\ memory_table # None THEN Outcomes ELSE {"ok"}
SortPositions(agent_id) ==
    IF use_aws_memory /\ memory_table # None
    THEN 1..(Len(dynamo_table[agent_id]) + 1) ELSE {1}

\* store_memory(agent_id, content, memory_type, user_id, importance, metadata,
\* tags), called when the clock shows t
StoreCall(agent_id, content, memory_type, user_id, importance, metadata, tags, t, o1, o2, pos) ==
    LET entry == MemoryEntry(FreshId, agent_id, user_id, content, memory_type,
                             importance, t, metadata, tags)
        r == StoreMemory(local_memories, dynamo_table, bedrock_events, entry, o1, o2, pos)
    IN  /\ now' = t
        /\ local_memories' = r.local
        /\ dynamo_table' = r.table
        /\ bedrock_events' = r.bedrock
        /\ written' = Append(written, entry)
        /\ ret' = [op |-> "store", raised |-> r.raised,
                   id |-> IF r.raised THEN 0 ELSE entry.id,
                   agent_id |-> agent_id, tiers |-> r.tiers]
        /\ UNCHANGED <<use_aws_memory, use_bedrock_memory, memory_table,
                       agent_personalities, learn>>

StoreOf(args, bound, elapsed) ==
    /\ Len(written) < bound
    /\ \E a \in args, t \in {now + d : d \in elapsed}, o1 \in Tier1Outcomes, o2 \in Tier2Outcomes :
          \E pos \in SortPositions(a.agent_id) :
             StoreCall(a.agent_id, ContentOfKind(a.memory_type), a.memory_type,
                       a.user_id, a.importance, "{}", TagsOfKind(a.memory_type),
                       t, o1, o2, pos)

Store == StoreOf(StoreArgs, MaxStores, {0, 1})

\* The else branch of update_memory_importance: the first entry of the agent's
\* log with that id gets the new importance
UpdateLocally(lm, memory_id, agent_id, new_importance) ==
    IF agent_id \notin DOMAIN lm THEN lm
    ELSE LET hits == {i \in 1..Len(lm[agent_id]) : lm[agent_id][i].id = memory_id}
         IN  IF hits = {} THEN lm
             ELSE LET i == CHOOSE i \in hits : \A j \in hits : i <= j
                  IN  [lm EXCEPT ![agent_id][i].importance = new_importance]

\* update_memory_importance(memory_id, agent_id, new_importance).  With
\* use_aws_memory the call goes to memory_table.update_item with the Python
\* float as attribute value: None has no update_item (AttributeError), and the
\* boto3 serializer refuses a float (TypeError) before any request is sent;
\* neither is the ClientError the call catches
UpdateMemoryImportance(memory_id, agent_id, new_importance) ==
    LET tier2 == use_aws_memory /\ ~use_bedrock_memory
    IN  /\ local_memories' = IF tier2 THEN local_memories
                             ELSE UpdateLocally(local_memories, memory_id, agent_id, new_importance)
        /\ ret' = [op |-> "update", raised |-> tier2, id |-> memory_id, agent_id |-> agent_id,
                   new_importance |-> new_importance]
        /\ UNCHANGED <<use_aws_memory, use_bedrock_memory, memory_table, dynamo_table,
                       bedrock_events, written, now, agent_personalities, learn>>

\* delete_old_memories(agent_id, days_old), called when the clock shows t (the
\* clock counts days): with use_aws_memory the call does nothing, else the
\* agent's log keeps the entries younger than the cutoff.  before is history:
\* the in-process tier and the table as the call found them
DeleteOldMemories(agent_id, days_old, t) ==
    LET cutoff_date == t - days_old
        tier2 == use_aws_memory /\ ~use_bedrock_memory
    IN  /\ now' = t
        /\ local_memories' =
              IF tier2 \/ agent_id \notin DOMAIN local_memories THEN local_memories
              ELSE [local_memories EXCEPT ![agent_id] =
                       SelectSeq(@, LAMBDA memory : memory.timestamp > cutoff_date)]
        /\ ret' = [op |-> "delete", raised |-> FALSE, agent_id |-> agent_id,
                   days_old |-> days_old, cutoff_date |-> cutoff_date,
                   before |-> [local |-> local_memories, table |-> dynamo_table]]
        /\ UNCHANGED <<use_aws_memory, use_bedrock_memory, memory_table, dynamo_table,
                       bedrock_events, written, agent_personalities, learn>>

\* Mutant of RetrieveCall: the agent's log is fetched with setdefault and
\* sorted in place before it is filtered
RetrieveCallSortingLog(agent_id, memory_type, user_id, limit, importance_threshold, o1, o2) ==
    LET r == RetrieveMemories(agent_id, memory_type, user_id, limit,
                              importance_threshold, o1, o2)
        log == IF agent_id \in DOMAIN local_memories THEN local_memories[agent_id] ELSE <<>>
    IN  /\ ret' = [op |-> "retrieve", raised |-> r.raised, entries |-> r.entries,
                   agent_id |-> agent_id, memory_type |-> memory_type,
                   user_id |-> user_id, limit |-> limit,
                   importance_threshold |-> importance_threshold, tiers |-> r.tiers]
        /\ local_memories' = [a \in DOMAIN local_memories \cup {agent_id} |->
                                 IF a = agent_id THEN SortByTimestampDesc(log)
                                 ELSE local_memories[a]]
        /\ UNCHANGED <<use_aws_memory, use_bedrock_memory, memory_table,
                       dynamo_table, bedrock_events, written, now,
                       agent_personalities, learn>>
\* retrieve_memories(agent_id, memory_type, user_id, limit, importance_threshold)
RetrieveCall(agent_id, memory_type, user_id, limit, importance_threshold, o1, o2) ==
    LET r == RetrieveMemories(agent_id, memory_type, user_id, limit,
                              importance_threshold, o1, o2)
    IN  /\ ret' = [op |-> "retrieve", raised |-> r.raised, entries |-> r.entries,
                   agent_id |-> agent_id, memory_type |-> memory_type,
                   user_id |-> user_id, limit |-> limit,
                   importance_threshold |-> importance_threshold, tiers |-> r.tiers]
        /\ UNCHANGED <<use_aws_memory, use_bedrock_memory, memory_table,
                       local_memories, dynamo_table, bedrock_events, written, now,
                       agent_personalities, learn>>

RetrieveOf(limits) ==
    \E agent_id \in QueryAgents, memory_type \in QueryKinds, user_id \in Users,
       limit \in limits, importance_threshold \in Thresholds,
       o1 \in Tier1Outcomes, o2 \in Tier2Outcomes :
       RetrieveCall(agent_id, memory_type, user_id, limit, importance_threshold, o1, o2)

Retrieve == RetrieveOf(Limits)

Next == Store \/ Retrieve

Spec == Init /\ [][Next]_vars

\* The in-process tier alone: MemoryManager(use_aws_memory=False)
InitLocal == InitWith({<<FALSE, None>>})

StoreLocal == StoreOf(StoreArgs, MaxLocalStores, {0, 1})

RetrieveLocal == RetrieveOf(LocalLimits)

NextLocal == StoreLocal \/ RetrieveLocal

SpecLocal == InitLocal /\ [][NextLocal]_vars

\* One agent's log filled past its cap through the in-process tier
StoreRetention == StoreOf(RetentionArgs, MaxRetStores, {1})

NextRetention == StoreRetention

SpecRetention == InitLocal /\ [][NextRetention]_vars

\* store_memory called with importances inside and outside [0.0, 1.0]:
\* 0.5, 1.0, 1.5 and -0.5
ImportanceArgs ==
    {StoreArg("a1", "knowledge", None, 5), StoreArg("a1", "knowledge", "u1", 10),
     StoreArg("a1", "knowledge", "u1", 15), StoreArg("a1", "conversation", None, -5)}
StoreImportance == StoreOf(ImportanceArgs, MaxImportanceStores, {1})
UpdateImportance ==
    \E memory_id \in 1..MaxImportanceStores, agent_id \in QueryAgents, tenths \in {5, 15} :
       UpdateMemoryImportance(memory_id, agent_id, Float(tenths))
NextImportance == StoreImportance \/ UpdateImportance
SpecImportance == Init /\ [][NextImportance]_vars

\* ------------------------------------------------- the learning engine's calls
\* _extract_knowledge_snippets: code blocks, then URLs, then the excerpt
ExtractKnowledgeSnippets(agent_response) ==
    LET code_matches == CodeMatches(agent_response)
        url_matches == UrlMatches(agent_response)
    IN  [k \in 1..Len(code_matches) |->
            [content |-> TextContent(code_matches[k]), importance |-> Float(9),
             metadata |-> "code_snippet", tags |-> <<"code", "technical">>]]
        \o [k \in 1..Len(url_matches) |->
            [content |-> TextContent(url_matches[k]), importance |-> Float(7),
             metadata |-> "reference_url", tags |-> <<"reference", "external">>]]
        \o (IF Len(agent_response) > ExcerptWords
            THEN <<[content |-> TextContent(TakeChars(agent_response, ExcerptChars) \o <<"...">>),
                    importance |-> Float(6), metadata |-> "technical_explanation",
                    tags |-> <<"explanation", "technical">>]>>
            ELSE <<>>)

\* The sample messages
Words(n) == [i \in 1..n |-> "w"]
UserPlain == <<"hey", "there">>
UserTech == <<"please", "fix", "the", "API">>
\* A message that names every term of _extract_technical_terms
UserAllTerms == ExtractTerms
ResponsePlain == <<"ok">>
ResponseCodeUrl == <<"use", "[fence]", "code", "[fence]", "see", "https://x">>
ResponseLong == <<"database">> \o Words(ExcerptWords)
ResponseFifty == Words(ExcerptWords)
LearnArg(user_message, agent_response, user_id) ==
    [agent_id |-> "a1", user_message |-> user_message, agent_response |-> agent_response,
     user_id |-> user_id,
     conversation_context |-> IF user_id = None THEN None ELSE "conversation_context"]
LearnArgs ==
    {LearnArg(UserPlain, ResponsePlain, None), LearnArg(UserTech, ResponsePlain, "u1"),
     LearnArg(UserTech, ResponseCodeUrl, "u1"), LearnArg(UserPlain, ResponseLong, None),
     LearnArg(UserPlain, ResponseFifty, "u1")}

\* Mutant of LearnSteps: the personality is updated before the response
\* pattern is stored
LearnStepsSwapped ==
    <<"conversation", "user_style", "personality_update", "response_pattern",
      "technical_learning", "knowledge">>

\* The statements of learn_from_conversation and of the helpers it calls that
\* can store, in program order
LearnSteps ==
    <<"conversation", "user_style", "response_pattern", "personality_update",
      "technical_learning", "knowledge">>
StepIndex(pc) == CHOOSE i \in 1..Len(LearnSteps) : LearnSteps[i] = pc
After(pc) == IF StepIndex(pc) = Len(LearnSteps) THEN "returned" ELSE LearnSteps[StepIndex(pc) + 1]
Ended(l) == l.pc \in {"returned", "raised"}
Goto(pc) == [learn EXCEPT !.pc = pc]

\* handle_conversation_request: what the turn gives its client after learning
TurnResult(l) == IF l.pc = "raised" THEN "HTTPException(500)" ELSE "response"

\* learn_from_conversation(agent_id, user_message, agent_response, user_id,
\* conversation_context) is called
LearnBegin(args, bound) ==
    /\ learn.pc = "idle" \/ Ended(learn)
    /\ learn.n < bound
    /\ \E a \in args :
          learn' = [pc |-> LearnSteps[1], n |-> learn.n + 1, agent_id |-> a.agent_id,
                    user_message |-> a.user_message, agent_response |-> a.agent_response,
                    user_id |-> a.user_id, conversation_context |-> a.conversation_context,
                    stored |-> <<>>, attempts |-> 0, write_failed |-> FALSE, k |-> 1,
                    stepped |-> FALSE, before |-> NoCall, prior |-> NoCall]
    /\ ret' = NoCall
    /\ UNCHANGED <<use_aws_memory, use_bedrock_memory, memory_table, local_memories,
                   dynamo_table, bedrock_events, written, now, agent_personalities>>

\* One store_memory call of the learn call; an exception leaves the call
LearnStore(memory_type, content, user_id, importance, metadata, tags, o2, after) ==
    LET entry == MemoryEntry(FreshId, learn.agent_id, user_id, content, memory_type,
                             importance, now + 1, metadata, tags)
        r == StoreMemory(local_memories, dynamo_table, bedrock_events, entry, "ok", o2, 1)
    IN  /\ now' = now + 1
        /\ local_memories' = r.local
        /\ dynamo_table' = r.table
        /\ bedrock_events' = r.bedrock
        /\ written' = Append(written, entry)
        /\ learn' = IF r.raised
                    THEN [after EXCEPT !.pc = "raised", !.attempts = @ + 1,
                                       !.write_failed = TRUE]
                    ELSE [after EXCEPT !.stored = Append(@, entry), !.attempts = @ + 1]
        /\ UNCHANGED <<use_aws_memory, use_bedrock_memory, memory_table, ret>>

\* A statement that stores nothing
LearnSkip(after) ==
    /\ learn' = after
    /\ UNCHANGED <<use_aws_memory, use_bedrock_memory, memory_table, local_memories,
                   dynamo_table, bedrock_events, written, now, ret>>

LearnConversation(outs) ==
    /\ learn.pc = "conversation"
    /\ \E o2 \in Tier2Outcomes \cap outs :
          LearnStore("conversation",
                     TextContent(<<"User:">> \o learn.user_message
                                 \o <<"Agent:">> \o learn.agent_response),
                     learn.user_id, Float(7), OrElse(learn.conversation_context, "{}"),
                     <<>>, o2, Goto(After("conversation")))
    /\ UNCHANGED agent_personalities

LearnUserStyle(outs) ==
    /\ learn.pc = "user_style"
    /\ IF Truthy(learn.user_id)
       THEN \E o2 \in Tier2Outcomes \cap outs :
               LearnStore("user_style", JsonContent(AnalyzeStyle(learn.user_message)),
                          learn.user_id, Float(8), "analysis_type", <<>>, o2,
                          Goto(After("user_style")))
       ELSE LearnSkip(Goto(After("user_style")))
    /\ UNCHANGED agent_personalities

LearnResponsePattern(outs) ==
    /\ learn.pc = "response_pattern"
    /\ \E o2 \in Tier2Outcomes \cap outs :
          LearnStore("response_pattern",
                     JsonContent(
                        [user_style |-> IF Truthy(learn.user_id)
                                        THEN AnalyzeStyle(learn.user_message) ELSE JsonNull,
                         response_effectiveness |->
                            AssessResponseEffectiveness(learn.user_message, learn.agent_response),
                         response_length |-> Len(learn.agent_response),
                         technical_terms_used |-> CountTechnicalTerms(learn.agent_response)]),
                     learn.user_id, Float(6), "{}", <<>>, o2,
                     Goto(After("response_pattern")))
    /\ UNCHANGED agent_personalities

\* The personality_update snapshots the tiers hold for an agent, and the
\* most recent of them
HeldSnapshots(agent_id) ==
    (IF agent_id \in DOMAIN local_memories
     THEN {[id |-> e.id, obj |-> e.content.obj] :
             e \in {x \in Range(local_memories[agent_id]) : x.memory_type = "personality_update"}}
     ELSE {})
    \cup {[id |-> it.memory_id, obj |-> it.content.obj] :
             it \in {x \in Range(dynamo_table[agent_id]) : x.memory_type = "personality_update"}}
MostRecentSnapshot(agent_id) ==
    LET held == HeldSnapshots(agent_id)
    IN  IF held = {} THEN NoCall
        ELSE [op |-> "snapshot",
              obj |-> (CHOOSE s \in held : \A t \in held : t.id <= s.id).obj]

\* The call record once the personality step has run: stepped, before (the
\* cached personality the step found, if any) and prior (the snapshot
\* persisted when it ran) are history
Stepped(l) ==
    [l EXCEPT !.stepped = TRUE,
              !.before = IF l.agent_id \in DOMAIN agent_personalities
                         THEN [op |-> "cached",
                               personality |-> agent_personalities[l.agent_id]]
                         ELSE NoCall,
              !.prior = MostRecentSnapshot(l.agent_id)]

LearnPersonality(outs) ==
    /\ learn.pc = "personality_update"
    /\ LET u == UpdatePersonality(agent_personalities, learn.agent_id,
                                  learn.user_message, now + 1)
       IN  /\ agent_personalities' = u.cache
           /\ IF u.raised
              THEN LearnSkip(Stepped(Goto("raised")))
              ELSE \E o2 \in Tier2Outcomes \cap outs :
                      LearnStore("personality_update",
                                 JsonContent(PersonalitySnapshot(u.cache[learn.agent_id])),
                                 learn.user_id, Float(9), "{}", <<>>, o2,
                                 Stepped(Goto(After("personality_update"))))

LearnTechnical(outs) ==
    /\ learn.pc = "technical_learning"
    /\ LET user_tech_terms == ExtractTechnicalTerms(learn.user_message)
           response_tech_terms == ExtractTechnicalTerms(learn.agent_response)
       IN  IF user_tech_terms # <<>> \/ response_tech_terms # <<>>
           THEN \E o2 \in Tier2Outcomes \cap outs :
                   LearnStore("technical_learning",
                              JsonContent(
                                 [user_tech_terms |-> user_tech_terms,
                                  response_tech_terms |-> response_tech_terms,
                                  tech_depth |-> AssessTechnicalDepth(learn.user_message,
                                                                      learn.agent_response)]),
                              None, Float(8), "{}", <<>>, o2,
                              Goto(After("technical_learning")))
           ELSE LearnSkip(Goto(After("technical_learning")))
    /\ UNCHANGED agent_personalities

\* Mutant of LearnKnowledge: the snippets are stored for the user of the turn
LearnKnowledgeForUser(outs) ==
    /\ learn.pc = "knowledge"
    /\ LET knowledge_snippets == ExtractKnowledgeSnippets(learn.agent_response)
       IN  IF learn.k <= Len(knowledge_snippets)
           THEN \E o2 \in Tier2Outcomes \cap outs :
                   LET snippet == knowledge_snippets[learn.k]
                   IN  LearnStore("knowledge", snippet.content, learn.user_id,
                                  snippet.importance, snippet.metadata, snippet.tags, o2,
                                  [learn EXCEPT !.k = @ + 1])
           ELSE LearnSkip(Goto(After("knowledge")))
    /\ UNCHANGED agent_personalities

\* The loop of _extract_and_store_knowledge, one snippet at a time
LearnKnowledge(outs) ==
    /\ learn.pc = "knowledge"
    /\ LET knowledge_snippets == ExtractKnowledgeSnippets(learn.agent_response)
       IN  IF learn.k <= Len(knowledge_snippets)
           THEN \E o2 \in Tier2Outcomes \cap outs :
                   LET snippet == knowledge_snippets[learn.k]
                   IN  LearnStore("knowledge", snippet.content, None, snippet.importance,
                                  snippet.metadata, snippet.tags, o2,
                                  [learn EXCEPT !.k = @ + 1])
           ELSE LearnSkip(Goto(After("knowledge")))
    /\ UNCHANGED agent_personalities

\* dict.get(key, default) on a loaded JSON object
JsonGet(obj, key, default) == IF key \in DOMAIN obj THEN obj[key] ELSE default

\* _get_agent_personality on the cache: what it returns, the cache as it
\* leaves it, and the tiers it consulted
PersonalityLookup(cache, agent_id, o2) ==
    IF agent_id \in DOMAIN cache
    THEN [raised |-> FALSE, found |-> TRUE, personality |-> cache[agent_id],
          cache |-> cache, tiers |-> <<>>]
    ELSE LET r == RetrieveMemories(agent_id, "personality_update", None, 1, Float(0),
                                   "ok", o2)
             loaded == ~r.raised /\ r.entries # <<>> /\ r.entries[1].content.form = "json"
             data == r.entries[1].content.obj
             personality ==
                AgentPersonality(agent_id,
                                 JsonGet(data, "communication_style", EmptyStyle),
                                 JsonGet(data, "technical_preferences", EmptyPrefs),
                                 JsonGet(data, "learned_phrases", <<>>),
                                 r.entries[1].timestamp, r.entries[1].memory_type)
         IN  [raised |-> r.raised, found |-> loaded,
              personality |-> IF loaded THEN personality ELSE NoCall,
              cache |-> IF loaded
                        THEN [a \in (DOMAIN cache) \cup {agent_id} |->
                                 IF a = agent_id THEN personality ELSE cache[a]]
                        ELSE cache,
              tiers |-> r.tiers]

\* _get_agent_personality(agent_id), between two learn calls
GetAgentPersonality(agent_id, o2) ==
    /\ learn.pc = "idle" \/ Ended(learn)
    /\ LET r == PersonalityLookup(agent_personalities, agent_id, o2)
       IN  /\ ret' = [op |-> "personality", raised |-> r.raised, found |-> r.found,
                      agent_id |-> agent_id, personality |-> r.personality,
                      tiers |-> r.tiers, cached |-> agent_id \in DOMAIN agent_personalities]
           /\ agent_personalities' = r.cache
    /\ UNCHANGED <<use_aws_memory, use_bedrock_memory, memory_table, local_memories,
                   dynamo_table, bedrock_events, written, now, learn>>

\* The words a topic keyword can be found in: the tokens of a text, and of a
\* json.dumps string its keys, term lists and phrases
KnownJsonKeys ==
    <<"formality_score", "technical_depth", "response_length", "communication_tone",
      "common_patterns", "personality_traits", "user_style", "response_effectiveness",
      "technical_terms_used", "communication_style", "technical_preferences",
      "learned_phrases", "expertise_areas", "user_tech_terms", "response_tech_terms",
      "tech_depth">>
JsonKeyTokens(obj) == SelectSeq(KnownJsonKeys, LAMBDA key : key \in DOMAIN obj)
JsonTokens(obj) ==
    JsonKeyTokens(obj)
    \o (IF "user_style" \in DOMAIN obj /\ obj.user_style # JsonNull
        THEN JsonKeyTokens(obj.user_style) ELSE <<>>)
    \o (IF "user_tech_terms" \in DOMAIN obj
        THEN obj.user_tech_terms \o obj.response_tech_terms ELSE <<>>)
    \o (IF "technical_preferences" \in DOMAIN obj
        THEN [i \in 1..Len(obj.technical_preferences.terms) |->
                 obj.technical_preferences.terms[i].term]
        ELSE <<>>)
    \o (IF "learned_phrases" \in DOMAIN obj
        THEN [i \in 1..Len(obj.learned_phrases) |-> obj.learned_phrases[i][1]]
             \o [i \in 1..Len(obj.learned_phrases) |-> obj.learned_phrases[i][2]]
        ELSE <<>>)
ContentTokens(content) ==
    IF content.form = "text" THEN content.toks ELSE JsonTokens(content.obj)
RECURSIVE JoinContents(_)
JoinContents(entries) ==
    IF entries = <<>> THEN <<>>
    ELSE ContentTokens(entries[1].content) \o JoinContents(Tail(entries))

\* keywords of _extract_current_topic, in list order
TopicKeywords == <<"mobile", "database", "ai", "cloud", "frontend", "backend">>
\* Mutant of ExtractCurrentTopic: every conversation of the window is joined
ExtractCurrentTopicOfAll(conversations) ==
    IF conversations = <<>> THEN None
    ELSE LET recent_content == Lower(JoinContents(conversations))
             found == OccurringIn(TopicKeywords, recent_content)
         IN  IF found = <<>> THEN None ELSE found[1]
ExtractCurrentTopic(conversations) ==
    IF conversations = <<>> THEN None
    ELSE LET recent_content == Lower(JoinContents(SliceTo(conversations, 3)))
             found == OccurringIn(TopicKeywords, recent_content)
         IN  IF found = <<>> THEN None ELSE found[1]

\* _get_user_preferences: the metadata of the first preferences entry
GetUserPreferences(agent_id, user_id, o2) ==
    IF ~Truthy(user_id) THEN [raised |-> FALSE, preferences |-> "{}"]
    ELSE LET r == RetrieveMemories(agent_id, "preferences", user_id, 1, Float(0), "ok", o2)
         IN  [raised |-> r.raised,
              preferences |-> IF ~r.raised /\ r.entries # <<>>
                              THEN r.entries[1].metadata ELSE "{}"]

\* get_context_window(agent_id, user_id, conversation_limit, knowledge_limit);
\* o gives what the backend does at each of its three retrieves
GetContextWindow(agent_id, user_id, conversation_limit, knowledge_limit, o) ==
    LET rc == RetrieveMemories(agent_id, "conversation", user_id, conversation_limit,
                               Float(0), "ok", o[1])
        rk == RetrieveMemories(agent_id, "knowledge", user_id, knowledge_limit,
                               Float(7), "ok", o[2])
        up == GetUserPreferences(agent_id, user_id, o[3])
        raised == rc.raised \/ rk.raised \/ up.raised
    IN  [raised |-> raised,
         recent_conversations |-> IF raised THEN <<>> ELSE rc.entries,
         relevant_knowledge |-> IF raised THEN <<>> ELSE rk.entries,
         user_preferences |-> IF raised THEN "{}" ELSE up.preferences,
         current_topic |-> IF raised THEN None ELSE ExtractCurrentTopic(rc.entries)]

\* content[:200] + '...'
Truncate(content) ==
    IF content.form = "text"
    THEN TextContent(TakeChars(content.toks, 200) \o <<"...">>)
    ELSE [form |-> "json[:200]", obj |-> content.obj]
Snippets(entries, n) ==
    [i \in 1..Min2(n, Len(entries)) |-> Truncate(entries[i].content)]

\* Mutant of EnhancedPrompt: the recent-context header is written before the
\* list of conversations is looked at
EnhancedPromptWithHeader(found, personality, context_window) ==
    <<[section |-> "base_prompt"]>>
    \o (IF found
        THEN <<[section |-> "personality",
                communication_style |-> personality.communication_style,
                technical_preferences |-> JsonPrefs(personality.technical_preferences),
                phrases |-> LastN(personality.learned_phrases, 5)]>>
        ELSE <<>>)
    \o <<[section |-> "recent_context",
          snippets |-> Snippets(context_window.recent_conversations, 3)]>>
    \o (IF context_window.relevant_knowledge # <<>>
        THEN <<[section |-> "relevant_knowledge",
                snippets |-> Snippets(context_window.relevant_knowledge, 2)]>>
        ELSE <<>>)
    \o (IF Truthy(context_window.current_topic)
        THEN <<[section |-> "current_topic", topic |-> context_window.current_topic]>>
        ELSE <<>>)
\* The text get_enhanced_system_prompt builds, as the list of its sections
EnhancedPrompt(found, personality, context_window) ==
    <<[section |-> "base_prompt"]>>
    \o (IF found
        THEN <<[section |-> "personality",
                communication_style |-> personality.communication_style,
                technical_preferences |-> JsonPrefs(personality.technical_preferences),
                phrases |-> LastN(personality.learned_phrases, 5)]>>
        ELSE <<>>)
    \o (IF context_window.recent_conversations # <<>>
        THEN <<[section |-> "recent_context",
                snippets |-> Snippets(context_window.recent_conversations, 3)]>>
        ELSE <<>>)
    \o (IF context_window.relevant_knowledge # <<>>
        THEN <<[section |-> "relevant_knowledge",
                snippets |-> Snippets(context_window.relevant_knowledge, 2)]>>
        ELSE <<>>)
    \o (IF Truthy(context_window.current_topic)
        THEN <<[section |-> "current_topic", topic |-> context_window.current_topic]>>
        ELSE <<>>)

\* get_enhanced_system_prompt(agent_id, base_prompt, user_id), between two
\* learn calls; o gives what the backend does at each of its four retrieves
GetEnhancedSystemPrompt(agent_id, user_id, o) ==
    /\ learn.pc = "idle" \/ Ended(learn)
    /\ LET pl == PersonalityLookup(agent_personalities, agent_id, o[1])
           cw == GetContextWindow(agent_id, user_id, 10, 5, <<o[2], o[3], o[4]>>)
           raised == pl.raised \/ cw.raised
       IN  /\ ret' = [op |-> "prompt", raised |-> raised, agent_id |-> agent_id,
                      user_id |-> user_id,
                      cached |-> agent_id \in DOMAIN agent_personalities,
                      found |-> pl.found,
                      context_window |-> cw,
                      prompt |-> IF raised THEN <<>>
                                 ELSE EnhancedPrompt(pl.found, pl.personality, cw)]
           /\ agent_personalities' = pl.cache
    /\ UNCHANGED <<use_aws_memory, use_bedrock_memory, memory_table, local_memories,
                   dynamo_table, bedrock_events, written, now, learn>>
\* At most one of the four retrieves meets a failing backend
PromptOutcomes(outs) ==
    {o \in [1..4 -> Tier2Outcomes \cap outs] : Cardinality({i \in 1..4 : o[i] # "ok"}) <= 1}

\* The process ends and a new one starts: MemoryManager and LearningEngine are
\* constructed again, the DynamoDB table keeps its items
Restart ==
    /\ learn.pc = "idle" \/ Ended(learn)
    /\ agent_personalities # [a \in {} |-> NoCall] \/ local_memories # [a \in {} |-> <<>>]
    /\ local_memories' = [a \in {} |-> <<>>]
    /\ agent_personalities' = [a \in {} |-> NoCall]
    /\ learn' = [pc |-> "idle", n |-> learn.n]
    /\ ret' = NoCall
    /\ UNCHANGED <<use_aws_memory, use_bedrock_memory, memory_table, dynamo_table,
                   bedrock_events, written, now>>

\* Learning with every backend call answering
LearnStep(outs) ==
    \/ LearnConversation(outs)
    \/ LearnUserStyle(outs)
    \/ LearnResponsePattern(outs)
    \/ LearnPersonality(outs)
    \/ LearnTechnical(outs)
    \/ LearnKnowledge(outs)
NextLearn ==
    \/ LearnBegin(LearnArgs, MaxLearn)
    \/ LearnStep({"ok"})
    \/ \E agent_id \in QueryAgents : GetAgentPersonality(agent_id, "ok")
    \/ \E agent_id \in QueryAgents, user_id \in Users, o \in PromptOutcomes({"ok"}) :
          GetEnhancedSystemPrompt(agent_id, user_id, o)
    \/ Restart
SpecLearn == Init /\ [][NextLearn]_vars

\* Learning against a DynamoDB table whose calls can fail
InitFaulty == InitWith({<<TRUE, "Table">>})
NextFaulty ==
    \/ LearnBegin(LearnArgs, MaxFaultyLearn)
    \/ LearnStep(Outcomes)
    \/ \E agent_id \in QueryAgents, user_id \in Users, o \in PromptOutcomes(Outcomes) :
          GetEnhancedSystemPrompt(agent_id, user_id, o)
    \/ Restart
SpecFaulty == InitFaulty /\ [][NextFaulty]_vars

\* One process that learns from many turns, through the in-process tier
LongArgs == {LearnArg(UserPlain, ResponsePlain, None), LearnArg(UserAllTerms, ResponsePlain, None)}
NextLong ==
    \/ LearnBegin(LongArgs, MaxLongLearn)
    \/ LearnStep({"ok"})
SpecLong == InitLocal /\ [][NextLong]_vars

\* A process that fills the term table and then meets terms outside it, on
\* either tier, with the personality read and the process restarted in between
UserOutside == <<"security", "API">>
TermArgs ==
    {LearnArg(UserAllTerms, ResponsePlain, None), LearnArg(UserOutside, ResponsePlain, None),
     LearnArg(UserPlain, ResponsePlain, None)}
NextTerms ==
    \/ LearnBegin(TermArgs, MaxTermLearn)
    \/ LearnStep({"ok"})
    \/ \E agent_id \in QueryAgents : GetAgentPersonality(agent_id, "ok")
    \/ Restart
SpecTerms == Init /\ [][NextTerms]_vars

\* ------------------------------------------ two learn calls on two threads
\* learn_from_conversation called on two threads for one agent of a
\* MemoryManager(use_aws_memory=False); the interpreter can switch threads
\* between any two statements.  learn holds both calls: calls[i] is thread i's
\* position (pc the statement of learn_from_conversation, at the statement
\* inside the method it called) and its locals, heap the AgentPersonality
\* objects created so far, cached the object the cache refers to for the agent
RaceAgent == "a1"
RaceArgs == {LearnArg(UserPlain, ResponsePlain, None), LearnArg(UserTech, ResponsePlain, None)}
RaceCall(a) ==
    [pc |-> LearnSteps[1], at |-> "begin", user_message |-> a.user_message,
     agent_response |-> a.agent_response, user_id |-> a.user_id,
     conversation_context |-> a.conversation_context, k |-> 1, missing |-> FALSE,
     entry |-> NoCall, personality |-> 0, stored |-> <<>>]
Racing == learn.pc = "concurrent"
CacheOf(heap, cached) ==
    IF cached = 0 THEN [a \in {} |-> NoCall] ELSE [a \in {RaceAgent} |-> heap[cached]]

\* Both threads enter learn_from_conversation, the first with the plain message
RaceBegin ==
    /\ learn.pc = "idle"
    /\ \E a \in RaceArgs :
          learn' = [pc |-> "concurrent", n |-> 2, agent_id |-> RaceAgent,
                    calls |-> <<RaceCall(LearnArg(UserPlain, ResponsePlain, None)), RaceCall(a)>>,
                    heap |-> <<>>, cached |-> 0]
    /\ ret' = NoCall
    /\ UNCHANGED <<use_aws_memory, use_bedrock_memory, memory_table, local_memories,
                   dynamo_table, bedrock_events, written, now, agent_personalities>>

\* Thread i goes on as c, the objects being heap and the cache referring to cached
RaceMove(i, c, heap, cached) ==
    /\ learn' = [learn EXCEPT !.calls[i] = c, !.heap = heap, !.cached = cached]
    /\ agent_personalities' = CacheOf(heap, cached)
    /\ UNCHANGED <<use_aws_memory, use_bedrock_memory, memory_table, dynamo_table,
                   bedrock_events, ret>>
RaceGoto(i, c) == RaceMove(i, c, learn.heap, learn.cached)
\* Whether the statement thread c is at calls store_memory
Stores(c) ==
    CASE c.pc = "conversation" -> TRUE
      [] c.pc = "user_style" -> Truthy(c.user_id)
      [] c.pc = "response_pattern" -> TRUE
      [] c.pc = "technical_learning" ->
            ExtractTechnicalTerms(c.user_message) # <<>>
            \/ ExtractTechnicalTerms(c.agent_response) # <<>>
      [] c.pc = "knowledge" -> c.k <= Len(ExtractKnowledgeSnippets(c.agent_response))
      [] OTHER -> FALSE

\* The MemoryEntry store_memory builds for the statement thread c is at
RaceEntry(c) ==
    LET E(memory_type, content, user_id, importance, metadata, tags) ==
           MemoryEntry(FreshId, RaceAgent, user_id, content, memory_type, importance,
                       now + 1, metadata, tags)
    IN  CASE c.pc = "conversation" ->
               E("conversation",
                 TextContent(<<"User:">> \o c.user_message \o <<"Agent:">> \o c.agent_response),
                 c.user_id, Float(7), OrElse(c.conversation_context, "{}"), <<>>)
          [] c.pc = "user_style" ->
               E("user_style", JsonContent(AnalyzeStyle(c.user_message)), c.user_id,
                 Float(8), "analysis_type", <<>>)
          [] c.pc = "response_pattern" ->
               E("response_pattern",
                 JsonContent(
                    [user_style |-> IF Truthy(c.user_id)
                                    THEN AnalyzeStyle(c.user_message) ELSE JsonNull,
                     response_effectiveness |->
                        AssessResponseEffectiveness(c.user_message, c.agent_response),
                     response_length |-> Len(c.agent_response),
                     technical_terms_used |-> CountTechnicalTerms(c.agent_response)]),
                 c.user_id, Float(6), "{}", <<>>)
          [] c.pc = "personality_update" ->
               E("personality_update",
                 JsonContent(PersonalitySnapshot(learn.heap[c.personality])),
                 c.user_id, Float(9), "{}", <<>>)
          [] c.pc = "technical_learning" ->
               E("technical_learning",
                 JsonContent(
                    [user_tech_terms |-> ExtractTechnicalTerms(c.user_message),
                     response_tech_terms |-> ExtractTechnicalTerms(c.agent_response),
                     tech_depth |-> AssessTechnicalDepth(c.user_message, c.agent_response)]),
                 None, Float(8), "{}", <<>>)
          [] c.pc = "knowledge" ->
               LET snippet == ExtractKnowledgeSnippets(c.agent_response)[c.k]
               IN  E("knowledge", snippet.content, None, snippet.importance,
                     snippet.metadata, snippet.tags)

\* Thread c at its next statement that reads or writes what the threads
\* share: the statements that store nothing are passed over
RECURSIVE Reach(_)
Reach(c) ==
    IF c.pc \in {"returned", "personality_update"} \/ Stores(c) THEN c
    ELSE Reach([c EXCEPT !.pc = After(c.pc)])
Advance(c) == Reach([c EXCEPT !.pc = After(c.pc), !.at = "begin"])

\* store_memory builds the entry and _store_locally tests
\* 'entry.agent_id not in self.local_memories'
RaceCheck(i) ==
    LET c == learn.calls[i]
    IN  /\ Racing
        /\ \/ c.at = "begin" /\ c.pc \in Range(LearnSteps) \ {"personality_update"} /\ Stores(c)
           \/ c.at = "store"
        /\ LET missing == RaceAgent \notin DOMAIN local_memories
           IN  RaceGoto(i, [c EXCEPT !.entry = RaceEntry(c), !.missing = missing,
                                     !.at = IF missing THEN "create" ELSE "append"])
        /\ written' = Append(written, RaceEntry(c))
        /\ now' = now + 1
        /\ UNCHANGED local_memories

\* self.local_memories[entry.agent_id] = []
RaceCreate(i) ==
    LET c == learn.calls[i]
    IN  /\ Racing /\ c.at = "create"
        /\ local_memories' = [x \in (DOMAIN local_memories) \cup {RaceAgent} |->
                                 IF x = RaceAgent THEN <<>> ELSE local_memories[x]]
        /\ RaceGoto(i, [c EXCEPT !.at = "append"])
        /\ UNCHANGED <<written, now>>

\* self.local_memories[entry.agent_id].append(entry) and the trim, to the
\* return of store_memory
RaceAppend(i) ==
    LET c == learn.calls[i]
        stored == [c EXCEPT !.stored = Append(@, c.entry)]
    IN  /\ Racing /\ c.at = "append"
        /\ local_memories' = StoreLocally(local_memories, c.entry)
        /\ RaceGoto(i, IF c.pc = "knowledge"
                       THEN Reach([stored EXCEPT !.k = @ + 1, !.at = "begin"])
                       ELSE Advance(stored))
        /\ UNCHANGED <<written, now>>

\* _update_agent_personality: 'if agent_id not in self.agent_personalities'
RaceCacheCheck(i) ==
    LET c == learn.calls[i]
    IN  /\ Racing /\ c.pc = "personality_update" /\ c.at = "begin"
        /\ RaceGoto(i, [c EXCEPT !.at = IF learn.cached = 0 THEN "cache_create" ELSE "bind"])
        /\ UNCHANGED <<local_memories, written, now>>

\* self.agent_personalities[agent_id] = AgentPersonality(...)
RaceCacheCreate(i) ==
    LET c == learn.calls[i]
        heap == Append(learn.heap,
                       AgentPersonality(RaceAgent, EmptyStyle, EmptyPrefs, <<>>, now, None))
    IN  /\ Racing /\ c.at = "cache_create"
        /\ RaceMove(i, [c EXCEPT !.at = "bind"], heap, Len(heap))
        /\ UNCHANGED <<local_memories, written, now>>

\* personality = self.agent_personalities[agent_id]
RaceBind(i) ==
    LET c == learn.calls[i]
    IN  /\ Racing /\ c.at = "bind"
        /\ RaceGoto(i, [c EXCEPT !.personality = learn.cached, !.at = "phrases"])
        /\ UNCHANGED <<local_memories, written, now>>

\* Thread i's statement changes the AgentPersonality object it holds
RaceUpdate(i, at, after, personality) ==
    LET c == learn.calls[i]
    IN  /\ Racing /\ c.at = at
        /\ RaceMove(i, [c EXCEPT !.at = after],
                    [learn.heap EXCEPT ![c.personality] = personality], learn.cached)
        /\ UNCHANGED <<local_memories, written, now>>
Held(i) == learn.heap[learn.calls[i].personality]

\* personality.learned_phrases.extend(user_phrases)
RacePhrases(i) ==
    RaceUpdate(i, "phrases", "style_check",
               [Held(i) EXCEPT !.learned_phrases =
                                  @ \o ExtractCommonPhrases(learn.calls[i].user_message)])

\* _update_communication_style: 'if 'formality' not in current_style'
RaceStyleCheck(i) ==
    LET c == learn.calls[i]
    IN  /\ Racing /\ c.at = "style_check"
        /\ RaceGoto(i, [c EXCEPT !.at = IF Held(i).communication_style.has
                                        THEN "style_append" ELSE "style_create"])
        /\ UNCHANGED <<local_memories, written, now>>

\* current_style['formality'] = []
RaceStyleCreate(i) ==
    RaceUpdate(i, "style_create", "style_append",
               [Held(i) EXCEPT !.communication_style.has = TRUE,
                               !.communication_style.formality = <<>>])

\* current_style['formality'].append(formality_score)
RaceStyleAppend(i) ==
    RaceUpdate(i, "style_append", "style_trim",
               [Held(i) EXCEPT !.communication_style.formality =
                                  Append(@, AnalyzeFormality(Lower(learn.calls[i].user_message)))])

\* The cut of the list to its last 10 scores
RaceStyleTrim(i) ==
    RaceUpdate(i, "style_trim", "style_mean",
               [Held(i) EXCEPT !.communication_style.formality =
                                  IF Len(@) > 10 THEN LastN(@, 10) ELSE @])

\* np.mean of the list, nan when the other thread has emptied it
MeanOrNan(s) == IF s = <<>> THEN [n |-> 0, d |-> 0] ELSE Mean(s)
RaceStyleMean(i) ==
    RaceUpdate(i, "style_mean", "prefs",
               [Held(i) EXCEPT !.communication_style.avg_formality =
                                  MeanOrNan(Held(i).communication_style.formality)])

\* _update_technical_preferences and last_updated; an exception leaves the call
RacePrefs(i) ==
    LET c == learn.calls[i]
        tp == UpdateTechnicalPreferences(Held(i).technical_preferences, c.user_message)
    IN  /\ Racing /\ c.at = "prefs"
        /\ RaceMove(i, IF tp.raised THEN [c EXCEPT !.pc = "raised", !.at = "begin"]
                       ELSE [c EXCEPT !.at = "store"],
                    [learn.heap EXCEPT ![c.personality] =
                        [Held(i) EXCEPT !.technical_preferences = tp.prefs,
                                        !.last_updated = IF tp.raised THEN @ ELSE now]],
                    learn.cached)
        /\ UNCHANGED <<local_memories, written, now>>

RaceStep(i) ==
    \/ RaceCheck(i)
    \/ RaceCreate(i)
    \/ RaceAppend(i)
    \/ RaceCacheCheck(i)
    \/ RaceCacheCreate(i)
    \/ RaceBind(i)
    \/ RacePhrases(i)
    \/ RaceStyleCheck(i)
    \/ RaceStyleCreate(i)
    \/ RaceStyleAppend(i)
    \/ RaceStyleTrim(i)
    \/ RaceStyleMean(i)
    \/ RacePrefs(i)
NextRace == RaceBegin \/ \E i \in 1..2 : RaceStep(i)
SpecRace == InitLocal /\ [][NextRace]_vars

\* query_lower in memory.content.lower(), for a query without a blank
ContainsQuery(memory, query) == Occurs(LowerTok(query), Lower(ContentTokens(memory.content)))

\* search_memories(agent_id, query, memory_type, limit); o2 is what the
\* table's query does
SearchMemories(agent_id, query, memory_type, limit, o2) ==
    LET r == RetrieveMemories(agent_id, memory_type, None, 1000, Float(0), "ok", o2)
        matching_memories == SelectSeq(r.entries, LAMBDA memory : ContainsQuery(memory, query))
    IN  /\ ret' = [op |-> "search", raised |-> r.raised,
                   entries |-> IF r.raised THEN <<>> ELSE SliceTo(matching_memories, limit),
                   agent_id |-> agent_id, query |-> query, memory_type |-> memory_type,
                   limit |-> limit, tiers |-> r.tiers]
        /\ UNCHANGED <<use_aws_memory, use_bedrock_memory, memory_table,
                       local_memories, dynamo_table, bedrock_events, written, now,
                       agent_personalities, learn>>
SearchQueries == {"Hey", "user:", "https://x", "zzz"}
Search ==
    \E agent_id \in QueryAgents, query \in SearchQueries, memory_type \in QueryKinds,
       limit \in LocalLimits, o2 \in Tier2Outcomes :
       SearchMemories(agent_id, query, memory_type, limit, o2)
NextSearch == Store \/ Search
SpecSearch == Init /\ [][NextSearch]_vars

\* A call of get_context_window, as the memory manager's caller sees it
ContextWindowCall(agent_id, user_id, conversation_limit, knowledge_limit, o) ==
    LET cw == GetContextWindow(agent_id, user_id, conversation_limit, knowledge_limit, o)
    IN  /\ ret' = [op |-> "window", raised |-> cw.raised, agent_id |-> agent_id,
                   user_id |-> user_id, conversation_limit |-> conversation_limit,
                   knowledge_limit |-> knowledge_limit, context_window |-> cw]
        /\ UNCHANGED <<use_aws_memory, use_bedrock_memory, memory_table,
                       local_memories, dynamo_table, bedrock_events, written, now,
                       agent_personalities, learn>>
\* Conversations, knowledge below and above 0.7, and preferences with metadata
WindowArgs ==
    {[agent_id |-> "a1", memory_type |-> "conversation", user_id |-> "u1",
      importance |-> Float(7), metadata |-> "{}"],
     [agent_id |-> "a1", memory_type |-> "knowledge", user_id |-> "u1",
      importance |-> Float(8), metadata |-> "{}"],
     [agent_id |-> "a1", memory_type |-> "knowledge", user_id |-> "u1",
      importance |-> Float(5), metadata |-> "{}"],
     [agent_id |-> "a1", memory_type |-> "preferences", user_id |-> "u1",
      importance |-> Float(5), metadata |-> "theme"],
     [agent_id |-> "a1", memory_type |-> "preferences", user_id |-> "u1",
      importance |-> Float(5), metadata |-> "language"]}
StoreWindow ==
    /\ Len(written) < MaxWindowStores
    /\ \E a \in WindowArgs, o2 \in Tier2Outcomes \cap {"ok", "ClientError"} :
          \E pos \in SortPositions(a.agent_id) :
             StoreCall(a.agent_id, ContentOfKind(a.memory_type), a.memory_type, a.user_id,
                       a.importance, a.metadata, TagsOfKind(a.memory_type), now + 1, "ok",
                       o2, pos)
WindowOutcomes ==
    {o \in [1..3 -> Tier2Outcomes \cap {"ok", "ClientError"}] :
        Cardinality({i \in 1..3 : o[i] # "ok"}) <= 1}
ContextWindow ==
    \E agent_id \in QueryAgents, user_id \in Users, conversation_limit \in Limits,
       knowledge_limit \in Limits, o \in WindowOutcomes :
       ContextWindowCall(agent_id, user_id, conversation_limit, knowledge_limit, o)
NextWindow == StoreWindow \/ ContextWindow
SpecWindow == Init /\ [][NextWindow]_vars

\* Conversations of one user about several topics, through the in-process
\* tier, and the context window read over them
TopicTexts == {<<"hey", "there">>, <<"backend", "Database">>, <<"mobile">>, <<"email">>}
TopicLimits == {2, 10}
StoreTopic ==
    /\ Len(written) < MaxTopicStores
    /\ \E text \in TopicTexts :
          StoreCall("a1", TextContent(text), "conversation", "u1", Float(5), "{}", <<>>,
                    now + 1, "ok", "ok", 1)
TopicWindow ==
    \E conversation_limit \in TopicLimits :
       ContextWindowCall("a1", "u1", conversation_limit, 5, <<"ok", "ok", "ok">>)
NextTopic == StoreTopic \/ TopicWindow
\* The state of a process in which no call has been made but the one whose
\* arguments ret holds
InitInputs(inputs) ==
    /\ use_aws_memory = FALSE /\ memory_table = None /\ use_bedrock_memory = FALSE
    /\ local_memories = [a \in {} |-> <<>>]
    /\ dynamo_table = [a \in Agents |-> <<>>]
    /\ bedrock_events = <<>>
    /\ written = <<>>
    /\ now = 0
    /\ agent_personalities = [a \in {} |-> NoCall]
    /\ learn = NoLearn
    /\ ret \in inputs
TextsUpTo(tokens, n) == UNION {[1..k -> tokens] : k \in 0..n}

\* _assess_response_effectiveness applied to an exchange
UserTokens == {"hey", "API", "works?"}
ResponseTokens == {"ok", "Yes", "nosql", "database"}
Exchanges ==
    {[op |-> "exchange", user_message |-> u, agent_response |-> r] :
        u \in TextsUpTo(UserTokens, MaxUserWords), r \in TextsUpTo(ResponseTokens, MaxResponseWords)}
AssessEffectiveness ==
    /\ ret.op = "exchange"
    /\ ret' = [op |-> "effectiveness", user_message |-> ret.user_message,
               agent_response |-> ret.agent_response,
               score |-> EffectivenessScore(ret.user_message, ret.agent_response)]
    /\ UNCHANGED <<use_aws_memory, use_bedrock_memory, memory_table, local_memories,
                   dynamo_table, bedrock_events, written, now, agent_personalities, learn>>
NextScore == AssessEffectiveness
InitScore == InitInputs(Exchanges)
SpecScore == InitScore /\ [][NextScore]_vars

\* analyze_style applied to a text
StyleTokens ==
    {"hey", "great", "please", "thank", "you", "would", "API", "database", "nosql",
     "classmethod", "w"}
StyleTexts == {[op |-> "text", text |-> t] : t \in TextsUpTo(StyleTokens, MaxStyleWords)}
Analyze ==
    /\ ret.op = "text"
    /\ ret' = [op |-> "style", text |-> ret.text, analysis |-> AnalyzeStyle(ret.text)]
    /\ UNCHANGED <<use_aws_memory, use_bedrock_memory, memory_table, local_memories,
                   dynamo_table, bedrock_events, written, now, agent_personalities, learn>>
NextStyle == Analyze
InitStyle == InitInputs(StyleTexts)
SpecStyle == InitStyle /\ [][NextStyle]_vars

\* extract_learning_insights applied to a list of texts, in a process with
\* one of the iteration orders of its sets of strings
InsightTexts == {<<"hey">>, <<"API", "nosql">>, [i \in 1..21 |-> "w"]}
Orders(values) ==
    {o \in [1..Cardinality(values) -> values] : \A i, j \in DOMAIN o : o[i] = o[j] => i = j}
HashOrders ==
    [depth : Orders({"low", "medium", "high"}),
     length : Orders({"short", "medium", "long"}),
     tone : Orders({"friendly", "professional", "technical"})]
InsightInputs ==
    {[op |-> "texts", conversations |-> c, hash_order |-> h] :
        c \in TextsUpTo(InsightTexts, MaxInsightTexts), h \in HashOrders}
ExtractInsights ==
    /\ ret.op = "texts"
    /\ ret' = [op |-> "insights", conversations |-> ret.conversations,
               hash_order |-> ret.hash_order,
               insights |-> ExtractLearningInsights(ret.conversations, ret.hash_order)]
    /\ UNCHANGED <<use_aws_memory, use_bedrock_memory, memory_table, local_memories,
                   dynamo_table, bedrock_events, written, now, agent_personalities, learn>>
NextInsights == ExtractInsights
InitInsights == InitInputs(InsightInputs)
SpecInsights == InitInsights /\ [][NextInsights]_vars

\* Every reading operation of the memory manager over the in-process tier
StoreReads == StoreOf(StoreArgs, MaxReadStores, {0, 1})
NextReads == StoreReads \/ RetrieveLocal \/ Search \/ ContextWindow
SpecReads == InitLocal /\ [][NextReads]_vars
SpecTopic == InitLocal /\ [][NextTopic]_vars

\* Entries of two agents stored one or two days apart, and purges
DeleteArgs == {StoreArg("a1", "conversation", "u1", 7), StoreArg("a2", "conversation", "u1", 7)}
StoreDelete == StoreOf(DeleteArgs, MaxDeleteStores, {1, 2})
DeleteOld ==
    \E agent_id \in Agents, days_old \in 1..2, t \in {now, now + 1} :
       t <= MaxDeleteClock /\ DeleteOldMemories(agent_id, days_old, t)
NextDelete == StoreDelete \/ DeleteOld
SpecDelete == Init /\ [][NextDelete]_vars

\* Stores, importance updates and purges on one memory manager
NextFields == Store \/ UpdateImportance \/ DeleteOld
SpecFields == Init /\ [][NextFields]_vars

\* Items of the table that store_memory did not write: a timestamp that is no
\* ISO date, a metadata string that is no JSON text
ForeignItems ==
    LET item == DynamoItem(MemoryEntry(0, "a1", "u1", ContentOfKind("knowledge"),
                                       "knowledge", Float(7), 0, "{}", <<>>), 0)
    IN  {[item EXCEPT !.timestamp = [text |-> "2024/01/01"]],
         [item EXCEPT !.metadata = [text |-> "n/a"]]}
ForeignCount ==
    Cardinality({<<a, i>> \in Agents \X (1..(MaxForeignStores + MaxForeignPuts + 1)) :
                    i <= Len(dynamo_table[a]) /\ dynamo_table[a][i].memory_id = 0})
\* Another writer of the DynamoDB table puts an item
ForeignPut ==
    /\ use_aws_memory /\ memory_table # None
    /\ ForeignCount < MaxForeignPuts
    /\ \E item \in ForeignItems :
          \E pos \in SortPositions(item.agent_id) :
             dynamo_table' = PutItem(dynamo_table, item, pos)
    /\ ret' = NoCall
    /\ UNCHANGED <<use_aws_memory, use_bedrock_memory, memory_table, local_memories,
                   bedrock_events, written, now, agent_personalities, learn>>
StoreForeign == StoreOf(StoreArgs, MaxForeignStores, {1})
\* retrieve_memories while every backend call answers
RetrieveForeign ==
    \E agent_id \in QueryAgents, memory_type \in QueryKinds, user_id \in Users,
       limit \in Limits, importance_threshold \in Thresholds :
       RetrieveCall(agent_id, memory_type, user_id, limit, importance_threshold, "ok", "ok")
NextForeign == StoreForeign \/ ForeignPut \/ RetrieveForeign
SpecForeign == InitFaulty /\ [][NextForeign]_vars

\* ------------------------------------------------------------------ claims
\* The tiers whose call raised during the last store or retrieve
FailedTiers(r) ==
    IF r.raised THEN Range(r.tiers) ELSE Range(SubSeq(r.tiers, 1, Len(r.tiers) - 1))

LocalLog(agent_id) ==
    IF agent_id \in DOMAIN local_memories THEN local_memories[agent_id] ELSE <<>>
LocalIds(agent_id) == {LocalLog(agent_id)[i].id : i \in 1..Len(LocalLog(agent_id))}
DynamoIds(agent_id) ==
    {dynamo_table[agent_id][i].memory_id : i \in 1..Len(dynamo_table[agent_id])}
IsStore == ret.op = "store"
IsRetrieve == ret.op = "retrieve"

\* C1: a store call during which a backend tier raised, whatever the error,
\* returns the fresh id without raising and leaves the new entry in the
\* in-process log of its agent.
C1_StoreNeverRaises ==
    (IsStore /\ FailedTiers(ret) # {}) =>
        /\ ~ret.raised
        /\ ret.id = Len(written)
        /\ ret.id \in LocalIds(ret.agent_id)

\* C2: a retrieve during which a backend tier raised, whatever the error,
\* does not raise and returns what the in-process tier answers to the query.
C2_RetrieveNeverRaises ==
    (IsRetrieve /\ FailedTiers(ret) # {}) =>
        /\ ~ret.raised
        /\ ret.entries = RetrieveLocally(ret.agent_id, ret.memory_type, ret.user_id,
                                         ret.limit, ret.importance_threshold)

\* C3: when the backend tier answers a retrieve with an empty result the
\* query is run against the next tier, so the in-process tier holds no entry
\* that the query matches.
C3_EmptyFallsThrough ==
    (IsRetrieve /\ ~ret.raised /\ ret.tiers = <<"dynamo">> /\ ret.entries = <<>>) =>
        RetrieveLocally(ret.agent_id, ret.memory_type, ret.user_id,
                        ret.limit, ret.importance_threshold) = <<>>

\* The filters of a query, as the specification states them
MatchesQuery(e, agent_id, memory_type, user_id, importance_threshold) ==
    /\ e.agent_id = agent_id
    /\ memory_type # None => e.memory_type = memory_type
    /\ user_id # None => e.user_id = user_id
    /\ e.importance.tenths >= importance_threshold.tenths

\* C4: every entry a retrieve returns belongs to the agent, has the requested
\* kind and user when given, has importance >= threshold, and at most limit
\* entries are returned, whichever tier served the query.
C4_RetrieveFilters ==
    (IsRetrieve /\ ~ret.raised) =>
        /\ Len(ret.entries) <= ret.limit
        /\ \A i \in 1..Len(ret.entries) :
              MatchesQuery(ret.entries[i], ret.agent_id, ret.memory_type,
                           ret.user_id, ret.importance_threshold)

\* Positions of the in-process log of the queried agent that match the query
MatchingPositions ==
    {i \in 1..Len(LocalLog(ret.agent_id)) :
        MatchesQuery(LocalLog(ret.agent_id)[i], ret.agent_id, ret.memory_type,
                     ret.user_id, ret.importance_threshold)}
\* Position j comes before position i: more recent, or as recent and written earlier
ComesBefore(j, i) ==
    LET log == LocalLog(ret.agent_id)
    IN  \/ log[j].timestamp > log[i].timestamp
        \/ log[j].timestamp = log[i].timestamp /\ j < i

\* C5: on the in-process tier a retrieve returns the first min(limit, n) of
\* the n matching entries, most recent first, equal timestamps in insertion
\* order: the p-th returned entry is the matching entry that exactly p - 1
\* matching entries come before.
C5_LocalOrder ==
    (IsRetrieve /\ ~ret.raised /\ ret.tiers = <<"local">>) =>
        /\ Len(ret.entries) = Min2(ret.limit, Cardinality(MatchingPositions))
        /\ \A p \in 1..Len(ret.entries) :
              \E i \in MatchingPositions :
                 /\ ret.entries[p] = LocalLog(ret.agent_id)[i]
                 /\ Cardinality({j \in MatchingPositions : ComesBefore(j, i)}) = p - 1

\* C5 witness: a retrieve that cut three matches to two, two of the log's
\* entries sharing a timestamp and one being more recent
C5_Witness ==
    /\ IsRetrieve /\ ~ret.raised /\ ret.tiers = <<"local">>
    /\ Cardinality(MatchingPositions) = 3 /\ Len(ret.entries) = 2
    /\ LocalLog(ret.agent_id)[1].timestamp = LocalLog(ret.agent_id)[2].timestamp
    /\ LocalLog(ret.agent_id)[3].timestamp > LocalLog(ret.agent_id)[2].timestamp

\* The entries some tier holds, as store_memory built them
HeldEntries ==
    {written[k] : k \in {k \in 1..Len(written) :
        written[k].id \in LocalIds(written[k].agent_id) \cup DynamoIds(written[k].agent_id)}}

\* C6: a stored entry that is the sole match of retrieve(agent, kind = its
\* kind, user_id = its user) comes back as the one returned record, with the
\* content, kind, tags and importance it was written with, the id store
\* returned and its timestamp, when the retrieve asks for at least one entry
\* and no tier failed while it ran.
C6_RoundTrip ==
    (IsRetrieve /\ ~ret.raised /\ FailedTiers(ret) = {} /\ ret.limit >= 1) =>
        \A w \in HeldEntries :
            ( /\ ret.memory_type = w.memory_type /\ ret.user_id = w.user_id
              /\ \A x \in HeldEntries :
                    MatchesQuery(x, ret.agent_id, ret.memory_type, ret.user_id,
                                 ret.importance_threshold) <=> x = w )
            => /\ Len(ret.entries) = 1
               /\ ret.entries[1].id = w.id
               /\ ret.entries[1].content = w.content
               /\ ret.entries[1].memory_type = w.memory_type
               /\ ret.entries[1].tags = w.tags
               /\ PyEq(ret.entries[1].importance, w.importance)
               /\ ret.entries[1].timestamp = w.timestamp

\* The entries written for one agent, in write order
WrittenFor(agent_id) == SelectSeq(written, LAMBDA w : w.agent_id = agent_id)

\* C7: the in-process log of an agent never holds more than 1000 entries, and
\* it holds the most recently written ones in write order: after N > 1000
\* stores the N - 1000 oldest are gone.
C7_Retention ==
    \A a \in DOMAIN local_memories :
        LET log == local_memories[a]
            w == WrittenFor(a)
        IN  /\ Len(log) <= 1000
            /\ Len(log) = Min2(Len(w), 1000)
            /\ \A i \in 1..Len(log) : log[i] = w[Len(w) - Len(log) + i]

\* C7 witness: 1005 entries written for one agent, the first five dropped
C7_Witness ==
    /\ Len(written) = 1005
    /\ "a1" \in DOMAIN local_memories
    /\ Len(local_memories["a1"]) = 1000
    /\ local_memories["a1"][1].id = 6

\* What the specification says one learn call writes, from the call's arguments
TermInEitherMessage(l) ==
    ExtractTechnicalTerms(l.user_message) # <<>> \/ ExtractTechnicalTerms(l.agent_response) # <<>>
Expected(kind, tenths, tags) == [memory_type |-> kind, importance |-> Float(tenths), tags |-> tags]
ExpectedKnowledge(l) ==
    [k \in 1..Len(CodeMatches(l.agent_response)) |->
        [memory_type |-> "knowledge", importance |-> Float(9), tags |-> <<"code", "technical">>,
         content |-> TextContent(CodeMatches(l.agent_response)[k])]]
    \o [k \in 1..Len(UrlMatches(l.agent_response)) |->
        [memory_type |-> "knowledge", importance |-> Float(7), tags |-> <<"reference", "external">>,
         content |-> TextContent(UrlMatches(l.agent_response)[k])]]
    \o (IF Len(l.agent_response) > 50
        THEN <<[memory_type |-> "knowledge", importance |-> Float(6),
                tags |-> <<"explanation", "technical">>]>>
        ELSE <<>>)
ExpectedEntries(l) ==
    <<Expected("conversation", 7, <<>>)>>
    \o (IF l.user_id # None THEN <<Expected("user_style", 8, <<>>)>> ELSE <<>>)
    \o <<Expected("response_pattern", 6, <<>>), Expected("personality_update", 9, <<>>)>>
    \o (IF TermInEitherMessage(l) THEN <<Expected("technical_learning", 8, <<>>)>> ELSE <<>>)
    \o ExpectedKnowledge(l)
ExpectedKinds(l) == [i \in 1..Len(ExpectedEntries(l)) |-> ExpectedEntries(l)[i].memory_type]
StoredKinds(l) == [i \in 1..Len(l.stored) |-> l.stored[i].memory_type]
\* An entry, reduced to the fields the specification fixes for its kind
Summary(e) ==
    IF e.memory_type = "knowledge" /\ e.tags # <<"explanation", "technical">>
    THEN [memory_type |-> e.memory_type, importance |-> e.importance, tags |-> e.tags,
          content |-> e.content]
    ELSE [memory_type |-> e.memory_type, importance |-> e.importance, tags |-> e.tags]
StoredSummary(l) == [i \in 1..Len(l.stored) |-> Summary(l.stored[i])]

\* C8: if a write or step inside one learn call fails, the later writes of
\* that call are still attempted, the call returns without raising, and the
\* turn still produces its response
C8_FailureIsolated ==
    Ended(learn) =>
        /\ learn.pc = "returned"
        /\ learn.attempts = Len(ExpectedEntries(learn))
        /\ TurnResult(learn) = "response"

\* C9: within one learn call in which no write fails the stores happen in the
\* order conversation, user_style, response_pattern, personality_update,
\* technical_learning, knowledge: no later kind is written before an earlier
\* one, and a call that returns has written the kinds its arguments call for,
\* in that order
KindRank(kind) ==
    CASE kind = "conversation" -> 1
      [] kind = "user_style" -> 2
      [] kind = "response_pattern" -> 3
      [] kind = "personality_update" -> 4
      [] kind = "technical_learning" -> 5
      [] kind = "knowledge" -> 6
C9_WriteOrder ==
    (learn.pc # "idle" /\ ~learn.write_failed) =>
        /\ \A i, j \in 1..Len(learn.stored) :
              i < j => /\ KindRank(learn.stored[i].memory_type)
                          <= KindRank(learn.stored[j].memory_type)
                       /\ learn.stored[i].id < learn.stored[j].id
        /\ learn.pc = "returned" => StoredKinds(learn) = ExpectedKinds(learn)
\* A call with a user, a technical term, a code block and a URL has returned
\* after writing all six kinds
C9_Witness ==
    /\ learn.pc = "returned"
    /\ {learn.stored[i].memory_type : i \in 1..Len(learn.stored)}
          = {"conversation", "user_style", "response_pattern", "personality_update",
             "technical_learning", "knowledge"}

\* C10: one learn call in which no write fails adds exactly one conversation
\* entry (0.7), one user_style entry (0.8) iff a user is given, one
\* response_pattern entry (0.6), one personality_update entry (0.9), one
\* technical_learning entry (0.8) iff a technical term occurs in either
\* message, and one knowledge entry per snippet: each fenced code block
\* verbatim (0.9, tags code, technical), each URL (0.7, tags reference,
\* external), one excerpt iff the response exceeds 50 words (0.6, tags
\* explanation, technical)
C10_ExactEntries ==
    (Ended(learn) /\ ~learn.write_failed) =>
        StoredSummary(learn) = ExpectedEntries(learn)

\* The kinds of the entries the tiers hold for an agent
KindsHeld(agent_id) ==
    (IF agent_id \in DOMAIN local_memories
     THEN {local_memories[agent_id][i].memory_type : i \in 1..Len(local_memories[agent_id])}
     ELSE {})
    \cup {dynamo_table[agent_id][i].memory_type : i \in 1..Len(dynamo_table[agent_id])}
BasePromptOnly == <<[section |-> "base_prompt"]>>
IsPrompt == ret.op = "prompt" /\ ~ret.raised

\* C11: for an agent with no personality, cached or persisted, and no stored
\* conversation or knowledge entry, the enhanced system prompt is exactly the
\* base prompt, with nothing appended
C11_BasePromptUnchanged ==
    (/\ IsPrompt
     /\ ~ret.cached
     /\ KindsHeld(ret.agent_id) \cap {"personality_update", "conversation", "knowledge"} = {})
    => ret.prompt = BasePromptOnly

\* The personality_update entry a learn call stored, if it stored one
StoredSnapshots(l) == SelectSeq(l.stored, LAMBDA e : e.memory_type = "personality_update")
OnRehydrated(l) ==
    /\ l.pc # "idle"
    /\ l.stepped
    /\ l.before # NoCall
    /\ l.before.personality.loaded_from = "personality_update"

\* C12: a learning event for an agent whose cached personality was rehydrated
\* from a stored personality_update entry completes its personality step
\* without error and persists a new personality_update entry that folds in
\* the new formality sample
C12_RehydratedStepCompletes ==
    (OnRehydrated(learn) /\ ~learn.write_failed) =>
        /\ learn.pc # "raised"
        /\ StoredSnapshots(learn) # <<>>
        /\ StoredSnapshots(learn)[1].content.obj.communication_style.formality
              = LastN(Append(learn.before.personality.communication_style.formality,
                             AnalyzeFormality(Lower(learn.user_message))), 10)

\* C13: when a learning event finds no cached personality while a
\* personality_update entry is persisted, its personality step loads that
\* snapshot and updates it: the persisted formality history, term counts and
\* learned phrases are carried into the new snapshot
C13_LoadsPersistedSnapshot ==
    (/\ learn.pc # "idle"
     /\ learn.stepped
     /\ learn.before = NoCall
     /\ learn.prior # NoCall
     /\ StoredSnapshots(learn) # <<>>)
    => LET new == StoredSnapshots(learn)[1].content.obj
           old == learn.prior.obj
       IN  /\ new.communication_style.formality
                 = LastN(Append(old.communication_style.formality,
                                AnalyzeFormality(Lower(learn.user_message))), 10)
           /\ new.learned_phrases
                 = LastN(old.learned_phrases \o ExtractCommonPhrases(learn.user_message), 10)
           /\ \A i \in 1..Len(old.technical_preferences.terms) :
                 HasTerm(new.technical_preferences.terms,
                         old.technical_preferences.terms[i].term)

IsLookup == ret.op = "personality" /\ ~ret.raised
\* The lookup returned and cached the fields of the given snapshot
ReturnsSnapshot(snapshot) ==
    /\ ret.found
    /\ ret.personality.communication_style = snapshot.obj.communication_style
    /\ ret.personality.technical_preferences = snapshot.obj.technical_preferences
    /\ ret.personality.learned_phrases = snapshot.obj.learned_phrases
    /\ ret.personality.expertise_areas = snapshot.obj.expertise_areas
    /\ ret.agent_id \in DOMAIN agent_personalities
    /\ agent_personalities[ret.agent_id] = ret.personality

\* C14: the personality lookup returns the cached personality without
\* consulting the store when one is cached; on a cache miss it returns and
\* caches the fields of the agent's most recent personality_update entry; it
\* returns absent and leaves the cache unchanged when the agent has no
\* personality_update entry
C14_PersonalityFor ==
    IsLookup =>
        /\ ret.cached =>
              /\ ret.found
              /\ ret.tiers = <<>>
              /\ ret.personality = agent_personalities[ret.agent_id]
        /\ (~ret.cached /\ MostRecentSnapshot(ret.agent_id) # NoCall) =>
              ReturnsSnapshot(MostRecentSnapshot(ret.agent_id))
        /\ (~ret.cached /\ MostRecentSnapshot(ret.agent_id) = NoCall) =>
              /\ ~ret.found
              /\ ret.agent_id \notin DOMAIN agent_personalities

\* C15: once a learn call has performed its personality step for an agent,
\* that agent's personality is present in the cache, and no operation of the
\* running process removes a cached personality
C15_PersonalityStaysCached ==
    /\ []((learn.pc # "idle" /\ learn.stepped) => learn.agent_id \in DOMAIN agent_personalities)
    /\ [][Restart \/ (DOMAIN agent_personalities \subseteq DOMAIN agent_personalities')]_vars
\* A personality step has raised on a rehydrated personality and the
\* personality is still cached
C15_Witness ==
    /\ learn.pc = "raised"
    /\ learn.stepped
    /\ learn.agent_id \in DOMAIN agent_personalities

\* The learned_phrases the personality step of the call in flight found cached
PhrasesBefore(l) ==
    IF l.before = NoCall THEN <<>> ELSE l.before.personality.learned_phrases
\* C16: the cached learned_phrases list never holds more than the bound of
\* phrases, the most recent being kept in order, and one learning event adds at
\* most 5 phrases
C16_PhrasesBounded ==
    /\ \A a \in DOMAIN agent_personalities :
          Len(agent_personalities[a].learned_phrases) <= PhraseBound
    /\ (learn.pc # "idle" /\ learn.stepped) =>
          LET phrases == agent_personalities[learn.agent_id].learned_phrases
              all == PhrasesBefore(learn) \o ExtractCommonPhrases(learn.user_message)
          IN  /\ Len(ExtractCommonPhrases(learn.user_message)) <= 5
              /\ phrases = LastN(all, PhraseBound)

\* The user message a stored conversation entry holds between "User:" and "Agent:"
UserMessageOf(e) ==
    LET toks == e.content.toks
        at == CHOOSE i \in 1..Len(toks) : toks[i] = "Agent:"
    IN  SubSeq(toks, 2, at - 1)
\* The formality samples of an agent's learning events so far, in arrival
\* order: one per conversation logged, the call in flight counting once its
\* personality step has run
Samples(agent_id) ==
    LET convs == SelectSeq(LocalLog(agent_id), LAMBDA e : e.memory_type = "conversation")
        pending == /\ learn.pc \in Range(LearnSteps) \ {"conversation"}
                   /\ ~learn.stepped
                   /\ learn.agent_id = agent_id
        n == IF pending THEN Len(convs) - 1 ELSE Len(convs)
    IN  [i \in 1..n |-> AnalyzeFormality(Lower(UserMessageOf(convs[i])))]
\* The last n elements of a sequence, by position
Newest(s, n) == [i \in 1..Min2(n, Len(s)) |-> s[Len(s) - Min2(n, Len(s)) + i]]
\* C17: after every learning event the formality history is the 10 most recent
\* samples (all of them while there are fewer), in arrival order, and
\* avg_formality is the mean of the samples in that window
C17_FormalityWindow ==
    \A a \in DOMAIN agent_personalities :
        LET style == agent_personalities[a].communication_style
        IN  /\ style.has
            /\ Len(style.formality) <= 10
            /\ style.formality = Newest(Samples(a), 10)
            /\ FracSum(style.formality)
                  = Frac(style.avg_formality.n * Len(style.formality), style.avg_formality.d)
\* More than 10 events have been learned, the window holds samples of both
\* values and the oldest sample is no longer in it
C17_Witness ==
    /\ "a1" \in DOMAIN agent_personalities
    /\ Len(Samples("a1")) > 10
    /\ Samples("a1")[1] = Frac(0, 1)
    /\ Range(agent_personalities["a1"].communication_style.formality) = {Frac(1, 2)}
    /\ learn.pc = "returned"

\* The term table the personality step of the call in flight found cached
TableBefore(l) ==
    IF l.before = NoCall THEN <<>> ELSE l.before.personality.technical_preferences.terms
\* The count a table holds for a term, 0 for a term it does not hold
CountIn(terms, term) ==
    IF HasTerm(terms, term)
    THEN terms[CHOOSE i \in 1..Len(terms) : terms[i].term = term].count
    ELSE 0
TermsOf(terms) == {terms[i].term : i \in 1..Len(terms)}
\* The count of a term once the event has counted the user message
Counted(l, term) ==
    CountIn(TableBefore(l), term)
        + (IF Occurs(term, Lower(l.user_message)) /\ term \in Range(ExtractTerms) THEN 1 ELSE 0)
\* C18: after a learning event the term table holds at most 20 terms, each
\* with its earlier count raised by exactly 1 if the user message has the term
\* and unchanged otherwise, and the terms held are all the counted terms, or 20
\* of them with the highest counts when there are more
C18_TermTable ==
    /\ \A a \in DOMAIN agent_personalities :
          Len(agent_personalities[a].technical_preferences.terms) <= 20
    /\ (learn.pc # "idle" /\ learn.stepped) =>
          LET table == agent_personalities[learn.agent_id].technical_preferences.terms
              kept == TermsOf(table)
              counted == {t \in Range(ExtractTerms) \cup TermsOf(TableBefore(learn)) :
                             Counted(learn, t) > 0}
          IN  /\ Cardinality(kept) = Len(table)
              /\ \A i \in 1..Len(table) : table[i].count = Counted(learn, table[i].term)
              /\ kept \subseteq counted
              /\ Cardinality(kept) = Min2(20, Cardinality(counted))
              /\ \A t \in counted \ kept : \A k \in kept : Counted(learn, t) <= Counted(learn, k)

\* importance is a real number in [0.0, 1.0]
InRange(importance) == 0 <= importance.tenths /\ importance.tenths <= 10
\* The importances the tiers hold
HeldImportances ==
    UNION {{LocalLog(a)[i].importance : i \in 1..Len(LocalLog(a))} : a \in Agents}
    \cup UNION {{dynamo_table[a][i].importance : i \in 1..Len(dynamo_table[a])} : a \in Agents}
\* C19: every stored entry has an importance within [0.0, 1.0]: a store called
\* with an importance outside it raises to its caller and leaves every tier
\* without the entry, and an update_importance called with one raises
C19_ImportanceValidated ==
    /\ \A importance \in HeldImportances : InRange(importance)
    /\ (IsStore /\ ~InRange(written[Len(written)].importance)) =>
          /\ ret.raised
          /\ written[Len(written)] \notin HeldEntries
    /\ (ret.op = "update" /\ ~InRange(ret.new_importance)) => ret.raised

\* The batch tier 2 returns for the last retrieve
Batch == DynamoQuery(ret.agent_id, ToDecimal(ret.importance_threshold), ret.limit)
\* C20: a retrieve whose tier-2 batch holds a record that cannot be
\* deserialized does not raise, and returns every well-formed record of the
\* batch
C20_MalformedSkipped ==
    IsRetrieve =>
        /\ ~ret.raised
        /\ \A i \in 1..Len(Batch) :
              Deserializable(Batch[i]) =>
                 \E j \in 1..Len(ret.entries) : ret.entries[j].id = Batch[i].memory_id

\* The importances the tiers hold for the entry an update named
ImportancesOf(memory_id, agent_id) ==
    {LocalLog(agent_id)[i].importance.tenths :
        i \in {i \in 1..Len(LocalLog(agent_id)) : LocalLog(agent_id)[i].id = memory_id}}
    \cup {dynamo_table[agent_id][i].importance.tenths :
            i \in {i \in 1..Len(dynamo_table[agent_id]) :
                      dynamo_table[agent_id][i].memory_id = memory_id}}
IsUpdate == ret.op = "update"
\* C21: after update_importance(id, agent, x) the stored entry with that id
\* shows importance x on the tier that holds it, the in-process tier included
\* when tier 2 is configured
C21_UpdateShows ==
    IsUpdate => \A tenths \in ImportancesOf(ret.id, ret.agent_id) : tenths = ret.new_importance.tenths

\* C22: update_importance never raises to its caller
C22_UpdateNeverRaises ==
    IsUpdate => ~ret.raised

IsDelete == ret.op = "delete"
LogIn(lm, agent_id) == IF agent_id \in DOMAIN lm THEN lm[agent_id] ELSE <<>>
\* C23: after delete_older_than(agent, age) the in-process tier holds no entry
\* of the agent older than the retention age, with or without tier 2
\* configured; the agent's newer entries are kept in their order, other
\* agents' entries and the tier with time-to-live expiry are unchanged
C23_DeleteOlderThan ==
    IsDelete =>
        LET was == LogIn(ret.before.local, ret.agent_id)
            log == LocalLog(ret.agent_id)
        IN  /\ \A i \in 1..Len(log) : ~(log[i].timestamp < ret.cutoff_date)
            /\ SelectSeq(log, LAMBDA e : e.timestamp > ret.cutoff_date)
                  = SelectSeq(was, LAMBDA e : e.timestamp > ret.cutoff_date)
            /\ \A a \in Agents \ {ret.agent_id} : LocalLog(a) = LogIn(ret.before.local, a)
            /\ dynamo_table = ret.before.table

\* What the pair (agent_id, user_id) is given by retrieve, by
\* get_context_window and by get_enhanced_system_prompt, every backend answering
RetrievedBy(agent_id, user_id) ==
    RetrieveMemories(agent_id, None, user_id, 2, Float(0), "ok", "ok").entries
WindowOf(agent_id, user_id) == GetContextWindow(agent_id, user_id, 10, 5, <<"ok", "ok", "ok">>)
PromptOf(agent_id, user_id) ==
    LET pl == PersonalityLookup(agent_personalities, agent_id, "ok")
    IN  EnhancedPrompt(pl.found, pl.personality, WindowOf(agent_id, user_id))
\* A statement of a learn call runs; no learn call is made for user u2
LearnActs == learn' # learn /\ learn'.pc # "idle"
\* C24: (agent, user) pairs are independent partitions: no statement of a
\* learn call for one pair changes what retrieve, get_context_window and
\* get_enhanced_system_prompt give a different pair of the same agent
C24_PairsIndependent ==
    [][LearnActs => /\ RetrievedBy("a1", "u2")' = RetrievedBy("a1", "u2")
                    /\ WindowOf("a1", "u2")' = WindowOf("a1", "u2")
                    /\ PromptOf("a1", "u2")' = PromptOf("a1", "u2")]_vars

RaceDone == Racing /\ \A i \in 1..2 : learn.calls[i].pc \in {"returned", "raised"}
Scores == {AnalyzeFormality(Lower(learn.calls[i].user_message)) : i \in 1..2}
\* C25: under every interleaving of two concurrent learn calls for one agent
\* both calls complete, and afterwards the agent's personality is in the cache
\* with at most 10 formality samples, each from one of the two calls, and the
\* conversation entries of both calls are in the store
C25_OnlyPersonalityUpdateLost ==
    RaceDone =>
        /\ \A i \in 1..2 : learn.calls[i].pc = "returned"
        /\ RaceAgent \in DOMAIN agent_personalities
        /\ Len(agent_personalities[RaceAgent].communication_style.formality) <= 10
        /\ Range(agent_personalities[RaceAgent].communication_style.formality) \subseteq Scores
        /\ \A i \in 1..2 : learn.calls[i].stored[1].id \in LocalIds(RaceAgent)

\* The tiers that hold an entry of the agent with this id
BedrockIds(agent_id) ==
    {bedrock_events[i].id : i \in {i \in 1..Len(bedrock_events) : bedrock_events[i].agent_id = agent_id}}
HoldingTiers(agent_id, id) ==
    (IF id \in BedrockIds(agent_id) THEN {"bedrock"} ELSE {})
    \cup (IF id \in DynamoIds(agent_id) THEN {"dynamo"} ELSE {})
    \cup (IF id \in LocalIds(agent_id) THEN {"local"} ELSE {})
\* C26: after a store call returns, the new entry is held by exactly one tier,
\* the last one the call attempted (every tier attempted before it failed and
\* none after it was written), and no entry id exists in two tiers
C26_HeldByOneTier ==
    /\ (IsStore /\ ~ret.raised) =>
          HoldingTiers(ret.agent_id, ret.id) = {ret.tiers[Len(ret.tiers)]}
    /\ \A w \in Range(written) : Cardinality(HoldingTiers(w.agent_id, w.id)) <= 1
\* C26 witness: a store whose table write failed returned with the entry in
\* the in-process tier alone
C26_Witness ==
    /\ IsStore /\ ~ret.raised /\ ret.tiers = <<"dynamo", "local">>
    /\ HoldingTiers(ret.agent_id, ret.id) = {"local"}
    /\ \E w \in Range(written) : HoldingTiers(w.agent_id, w.id) = {"dynamo"}

TierOrder == <<"bedrock", "dynamo", "local">>
TierRank(tier) == CHOOSE k \in 1..Len(TierOrder) : TierOrder[k] = tier
\* C29: within one store or retrieve call the tiers are attempted in ascending
\* order, each at most once, so the call makes at most three attempts
C29_TiersOnceAscending ==
    (IsStore \/ IsRetrieve) =>
        /\ Len(ret.tiers) <= 3
        /\ \A i \in 1..Len(ret.tiers) : ret.tiers[i] \in Range(TierOrder)
        /\ \A i \in 1..Len(ret.tiers), j \in 1..Len(ret.tiers) :
              i < j => TierRank(ret.tiers[i]) < TierRank(ret.tiers[j])
\* C29 witness: a retrieve whose table query failed went on to the in-process
\* tier, after a store that did the same
C29_Witness ==
    /\ IsRetrieve /\ ret.tiers = <<"dynamo", "local">>
    /\ \E w \in Range(written) : HoldingTiers(w.agent_id, w.id) = {"local"}

IsSearch == ret.op = "search"
\* What the tier that answered holds of the agent and kind, most recent first
\* as retrieve gives it, up to 1000 entries
SearchCandidates ==
    IF ret.tiers[Len(ret.tiers)] = "local"
    THEN RetrieveLocally(ret.agent_id, ret.memory_type, None, 1000, Float(0))
    ELSE SelectSeq(MapEntryOfItem(SliceTo(dynamo_table[ret.agent_id], 1000)),
                   LAMBDA e : ret.memory_type # None => e.memory_type = ret.memory_type)
\* C27: search returns at most limit entries, each of the agent (and of the
\* kind, when given) and each containing the query case-insensitively: the
\* first limit such entries among the candidates, most recent first
C27_SearchResult ==
    (IsSearch /\ ~ret.raised) =>
        /\ Len(ret.entries) <= ret.limit
        /\ \A i \in 1..Len(ret.entries) :
              /\ ret.entries[i].agent_id = ret.agent_id
              /\ ret.memory_type # None => ret.entries[i].memory_type = ret.memory_type
              /\ ContainsQuery(ret.entries[i], ret.query)
        /\ ret.entries = SliceTo(SelectSeq(SearchCandidates,
                                           LAMBDA e : ContainsQuery(e, ret.query)), ret.limit)

IsWindow == ret.op = "window"
MostRecentFirst(entries) ==
    \A i \in 1..Len(entries), j \in 1..Len(entries) :
       i < j => entries[i].timestamp >= entries[j].timestamp
\* The preferences entries written for the agent and user
PreferencesOf(agent_id, user_id) ==
    {w \in Range(written) :
        w.agent_id = agent_id /\ w.user_id = user_id /\ w.memory_type = "preferences"}
\* C28: get_context_window returns at most conversation_limit entries of kind
\* conversation and at most knowledge_limit entries of kind knowledge with
\* importance >= 0.7, both most recent first, and as user_preferences the
\* metadata of the latest preferences entry of the agent and user, empty when
\* there is none or no user is given
C28_ContextWindow ==
    (IsWindow /\ ~ret.raised) =>
        LET cw == ret.context_window
            prefs == PreferencesOf(ret.agent_id, ret.user_id)
        IN  /\ Len(cw.recent_conversations) <= ret.conversation_limit
            /\ \A i \in 1..Len(cw.recent_conversations) :
                  cw.recent_conversations[i].memory_type = "conversation"
            /\ Len(cw.relevant_knowledge) <= ret.knowledge_limit
            /\ \A i \in 1..Len(cw.relevant_knowledge) :
                  /\ cw.relevant_knowledge[i].memory_type = "knowledge"
                  /\ cw.relevant_knowledge[i].importance.tenths >= 7
            /\ MostRecentFirst(cw.recent_conversations)
            /\ MostRecentFirst(cw.relevant_knowledge)
            /\ IF ret.user_id = None \/ prefs = {}
               THEN cw.user_preferences = "{}"
               ELSE \E w \in prefs : /\ \A v \in prefs : v.timestamp <= w.timestamp
                                    /\ cw.user_preferences = w.metadata

\* The entries the tiers hold, as a retrieve reads them
StoredEntries ==
    UNION {Range(LocalLog(a)) \cup Range(MapEntryOfItem(dynamo_table[a])) : a \in Agents}
SameFields(e, w) ==
    /\ e.id = w.id /\ e.agent_id = w.agent_id /\ e.user_id = w.user_id
    /\ e.content = w.content /\ e.memory_type = w.memory_type
    /\ e.timestamp = w.timestamp /\ e.metadata = w.metadata /\ e.tags = w.tags
AsWritten == \A e \in StoredEntries : \E w \in Range(written) : SameFields(e, w)
\* An entry has in the next state the importance it has now
KeepsImportance(e) ==
    \A f \in StoredEntries' :
       (f.id = e.id /\ f.agent_id = e.agent_id) => f.importance = e.importance
Updated(e) == ret'.op = "update" /\ ret'.id = e.id /\ ret'.agent_id = e.agent_id
\* C30: every stored entry has the id, agent_id, user_id, content, kind,
\* timestamp, metadata and tags it was written with, in every reachable state,
\* and no step changes the importance of a stored entry but an
\* update_importance for its id and agent
C30_EntriesImmutable ==
    /\ []AsWritten
    /\ [][\A e \in StoredEntries : Updated(e) \/ KeepsImportance(e)]_vars

\* The in-process tier answers every retrieve
InProcess == ~use_aws_memory \/ memory_table = None
KnowledgeIn(entries) == {i \in 1..Len(entries) : entries[i].memory_type = "knowledge"}
\* C31: the technical_learning and knowledge entries a learn call writes carry
\* user_id None, and on the in-process tier the context window and the prompt
\* built for a user hold no knowledge entry
C31_KnowledgeHasNoUser ==
    /\ \A w \in Range(written) :
          w.memory_type \in {"technical_learning", "knowledge"} => w.user_id = None
    /\ (IsPrompt /\ InProcess /\ ret.user_id # None) =>
          /\ KnowledgeIn(ret.context_window.recent_conversations) = {}
          /\ KnowledgeIn(ret.context_window.relevant_knowledge) = {}
          /\ \A i \in 1..Len(ret.prompt) : ret.prompt[i].section # "relevant_knowledge"
\* C31 witness: a prompt for user u1 on the in-process tier, whose log holds a
\* knowledge entry of importance 0.7 or more written by a turn of u1
C31_Witness ==
    /\ IsPrompt /\ InProcess /\ ret.user_id = "u1"
    /\ learn.pc = "returned" /\ learn.user_id = "u1"
    /\ \E e \in Range(LocalLog(ret.agent_id)) :
          /\ e.memory_type = "knowledge" /\ e.importance.tenths >= 7
          /\ e.id \in {learn.stored[i].id : i \in 1..Len(learn.stored)}

\* The sections of a prompt in the order the text is built in
SectionOrder == <<"base_prompt", "personality", "recent_context", "relevant_knowledge", "current_topic">>
SectionRank(section) == CHOOSE i \in 1..Len(SectionOrder) : SectionOrder[i] = section
SectionsOf(prompt) == [i \in 1..Len(prompt) |-> prompt[i].section]
HasSection(prompt, section) == \E i \in 1..Len(prompt) : prompt[i].section = section
SectionIn(prompt, section) == prompt[CHOOSE i \in 1..Len(prompt) : prompt[i].section = section]
FirstSnippets(section, entries, n) ==
    /\ Len(section.snippets) = Min2(n, Len(entries))
    /\ Len(section.snippets) >= 1
    /\ \A i \in 1..Len(section.snippets) : section.snippets[i] = Truncate(entries[i].content)
\* C32: every prompt the enhanced-prompt call returns starts with the base
\* prompt, followed in this order by a personality section exactly when the
\* lookup found a personality (with its last 5 learned phrases at most), a
\* recent-context section exactly when the context window has conversations
\* (its first 3 at most), a knowledge section exactly when it has knowledge
\* entries (its first 2 at most) and a topic section exactly when a current
\* topic is present; no section is emitted without content
C32_PromptLayout ==
    IsPrompt =>
        LET prompt == ret.prompt
            cw == ret.context_window
        IN  /\ Len(prompt) >= 1
            /\ prompt[1].section = "base_prompt"
            /\ \A i, j \in 1..Len(prompt) :
                  i < j => SectionRank(prompt[i].section) < SectionRank(prompt[j].section)
            /\ HasSection(prompt, "personality") <=> ret.found
            /\ HasSection(prompt, "personality") =>
                  LET section == SectionIn(prompt, "personality")
                      personality == agent_personalities[ret.agent_id]
                  IN  /\ Len(section.phrases) <= 5
                      /\ section.phrases = LastN(personality.learned_phrases, 5)
                      /\ section.communication_style = personality.communication_style
            /\ HasSection(prompt, "recent_context") <=> cw.recent_conversations # <<>>
            /\ HasSection(prompt, "recent_context") =>
                  FirstSnippets(SectionIn(prompt, "recent_context"), cw.recent_conversations, 3)
            /\ HasSection(prompt, "relevant_knowledge") <=> cw.relevant_knowledge # <<>>
            /\ HasSection(prompt, "relevant_knowledge") =>
                  FirstSnippets(SectionIn(prompt, "relevant_knowledge"), cw.relevant_knowledge, 2)
            /\ HasSection(prompt, "current_topic") <=> cw.current_topic # None
            /\ HasSection(prompt, "current_topic") =>
                  SectionIn(prompt, "current_topic").topic = cw.current_topic
C32_Witness ==
    /\ IsPrompt
    /\ SectionsOf(ret.prompt) = SectionOrder
    /\ Len(ret.context_window.recent_conversations) > 3
    /\ Len(ret.context_window.relevant_knowledge) > 2
C32_WitnessBare ==
    /\ IsPrompt
    /\ ret.found
    /\ ret.context_window.recent_conversations = <<>>
    /\ SectionsOf(ret.prompt) = <<"base_prompt", "personality">>

\* The positions in the keyword list of the keywords that occur, whatever
\* their case, in the content of one of the entries
KeywordsIn(entries) ==
    {j \in 1..Len(TopicKeywords) :
        \E i \in 1..Len(entries) :
           Occurs(TopicKeywords[j], Lower(ContentTokens(entries[i].content)))}
\* C33: the current topic of a context window is null when the window has no
\* conversations or none of the keywords occurs in its first three
\* conversation contents, and otherwise the keyword earliest in the list
\* mobile, database, ai, cloud, frontend, backend that occurs in them as a
\* substring whatever its case; conversations after the third have no influence
C33_CurrentTopic ==
    (IsWindow /\ ~ret.raised) =>
        LET cw == ret.context_window
            hits == KeywordsIn(SliceTo(cw.recent_conversations, 3))
        IN  IF hits = {}
            THEN cw.current_topic = None
            ELSE /\ cw.current_topic \in Range(TopicKeywords)
                 /\ \E j \in hits : /\ \A k \in hits : j <= k
                                    /\ cw.current_topic = TopicKeywords[j]
\* The topic is database, written Database after backend in the newest
\* conversation, while the fourth conversation alone names mobile
C33_Witness ==
    /\ IsWindow /\ ~ret.raised
    /\ Len(ret.context_window.recent_conversations) = 4
    /\ ret.context_window.recent_conversations[1].content = TextContent(<<"backend", "Database">>)
    /\ ret.context_window.recent_conversations[4].content = TextContent(<<"mobile">>)
    /\ KeywordsIn(SliceTo(ret.context_window.recent_conversations, 3)) = {2, 6}
    /\ ret.context_window.current_topic = "database"

\* The term table cached for an agent
TableOf(cache, agent_id) == cache[agent_id].technical_preferences.terms
\* C34: once the term table of a cached personality holds 20 distinct terms,
\* no step of the process brings a term into it that it did not hold: a term
\* counted for the first time has count 1, ranks after the 20 terms held and
\* is dropped by the update that counted it
C34_FullTableClosed ==
    [][\A a \in DOMAIN agent_personalities \cap DOMAIN agent_personalities' :
          Len(TableOf(agent_personalities, a)) = 20 =>
             TermsOf(TableOf(agent_personalities', a)) = TermsOf(TableOf(agent_personalities, a))]_vars
\* A learn call has counted a message naming security for a table that held 20
\* other terms, and the table holds the same 20 terms, api counted twice
C34_Witness ==
    /\ learn.pc # "idle" /\ learn.stepped
    /\ learn.user_message = UserOutside
    /\ Len(TableBefore(learn)) = 20
    /\ "security" \notin TermsOf(TableBefore(learn))
    /\ "security" \notin TermsOf(TableOf(agent_personalities, learn.agent_id))
    /\ CountIn(TableOf(agent_personalities, learn.agent_id), "api") = 2
    /\ Len(TableOf(agent_personalities, learn.agent_id)) = 20

ReadOps == {"retrieve", "search", "window"}
\* C35: a step that is a retrieve, a search or a get_context_window call
\* leaves the in-process logs as they were: every agent's entries in their
\* stored order, and no log for an agent that had none
C35_ReadsAreReadOnly ==
    [][ret'.op \in ReadOps =>
          /\ DOMAIN local_memories' = DOMAIN local_memories
          /\ \A a \in DOMAIN local_memories : local_memories'[a] = local_memories[a]]_vars
\* A retrieve returned two entries newest first from a log that holds them
\* oldest first
C35_Witness ==
    /\ ret.op = "retrieve" /\ ~ret.raised
    /\ Len(ret.entries) = 2
    /\ ret.entries[1].timestamp > ret.entries[2].timestamp
    /\ \E i, j \in 1..Len(LocalLog(ret.agent_id)) :
          /\ i < j
          /\ LocalLog(ret.agent_id)[i] = ret.entries[2]
          /\ LocalLog(ret.agent_id)[j] = ret.entries[1]
\* A read for an agent without a log, while another agent has one
C35_WitnessNoLog ==
    /\ ret.op \in ReadOps
    /\ ret.agent_id \notin DOMAIN local_memories
    /\ DOMAIN local_memories # {}

\* The three bonuses of an exchange, as the claim words them
LengthFits(u, r) == Max2(Len(u), 1) <= 2 * Len(r) /\ Len(r) <= 2 * Max2(Len(u), 1)
BothTechnical(u, r) == CountTechnicalTerms(u) > 0 /\ CountTechnicalTerms(r) > 0
Answered(u, r) ==
    HasQuestionMark(u) /\ (Occurs("yes", Lower(r)) \/ Occurs("no", Lower(r)))
\* The number n/10 as a float
ExactlyTenths(score, n) == score.tenths = n /\ score.below = 0
\* C36: the response-effectiveness score is min(1.0, 0.5 + 0.2 for a response
\* between half and twice the user's words + 0.2 when both texts hold a
\* technical term + 0.1 for a question answered with yes or no): one of 0.5,
\* 0.6, 0.7, 0.8, 0.9, 1.0, and exactly 1.0 when all three bonuses apply
C36_EffectivenessScore ==
    ret.op = "effectiveness" =>
        LET u == ret.user_message
            r == ret.agent_response
            sum == 5 + (IF LengthFits(u, r) THEN 2 ELSE 0)
                     + (IF BothTechnical(u, r) THEN 2 ELSE 0)
                     + (IF Answered(u, r) THEN 1 ELSE 0)
        IN  /\ ExactlyTenths(ret.score, Min2(10, sum))
            /\ \E n \in 5..10 : ExactlyTenths(ret.score, n)
            /\ (LengthFits(u, r) /\ BothTechnical(u, r) /\ Answered(u, r)) =>
                  ExactlyTenths(ret.score, 10)
\* What holds of the score: it is the value of the claim or the float just
\* under it, and the float just under it exactly when two or three bonuses
\* were added
C36_ScoreWithinOneFloat ==
    ret.op = "effectiveness" =>
        LET u == ret.user_message
            r == ret.agent_response
            bonuses == (IF LengthFits(u, r) THEN 1 ELSE 0) + (IF BothTechnical(u, r) THEN 1 ELSE 0)
                          + (IF Answered(u, r) THEN 1 ELSE 0)
            sum == 5 + (IF LengthFits(u, r) THEN 2 ELSE 0)
                     + (IF BothTechnical(u, r) THEN 2 ELSE 0)
                     + (IF Answered(u, r) THEN 1 ELSE 0)
        IN  /\ ret.score.tenths = sum
            /\ ret.score.below = (IF bonuses >= 2 THEN 1 ELSE 0)
C36_AllBonuses ==
    /\ ret.op = "effectiveness"
    /\ LengthFits(ret.user_message, ret.agent_response)
    /\ BothTechnical(ret.user_message, ret.agent_response)
    /\ Answered(ret.user_message, ret.agent_response)

IsStyle == ret.op = "style"
\* The indicators of each tone the lowercased text holds
FriendlyCount(text) == Cardinality({k \in FriendlyIndicators : Occurs(k, Lower(text))})
ProfessionalCount(text) ==
    Cardinality({k \in ProfessionalIndicators : Occurs(k, Lower(text))})
        + Cardinality({k \in ProfessionalPairs : OccursPair(k, Lower(text))})
TechnicalCount(text) == Cardinality({k \in TechnicalIndicators : Occurs(k, Lower(text))})
\* C37: the tone is technical exactly when the technical count is above both
\* other counts, otherwise professional exactly when the professional count
\* is above the friendly count, otherwise friendly: ties and the all-zero
\* case give friendly unless professional is above friendly
C37_Tone ==
    IsStyle =>
        LET f == FriendlyCount(ret.text)
            p == ProfessionalCount(ret.text)
            t == TechnicalCount(ret.text)
            tone == ret.analysis.communication_tone
        IN  /\ tone \in {"technical", "professional", "friendly"}
            /\ tone = "technical" <=> (t > f /\ t > p)
            /\ tone = "professional" <=> (~(t > f /\ t > p) /\ p > f)
            /\ tone = "friendly" <=> (~(t > f /\ t > p) /\ ~(p > f))
            /\ (f = 0 /\ p = 0 /\ t = 0) => tone = "friendly"
\* One indicator of each tone: technical ties with both, professional does
\* not exceed friendly, the tone is friendly
C37_Witness ==
    /\ IsStyle
    /\ TechnicalCount(ret.text) = 1
    /\ FriendlyCount(ret.text) = 1
    /\ ProfessionalCount(ret.text) = 1
    /\ ret.analysis.communication_tone = "friendly"
C37_WitnessProfessional ==
    /\ IsStyle
    /\ TechnicalCount(ret.text) = 1 /\ ProfessionalCount(ret.text) = 1
    /\ FriendlyCount(ret.text) = 0
    /\ ret.analysis.communication_tone = "professional"

\* The distinct terms of the technical vocabulary found in the lowercased text
VocabularyFound(text) ==
    {k \in TechnicalVocabulary : Occurs(k, Lower(text))}
    \cup {k \in TechnicalVocabularyPairs : OccursPair(k, Lower(text))}
DepthRank(depth) == CASE depth = "low" -> 0 [] depth = "medium" -> 1 [] depth = "high" -> 2
\* C38: with count the number of distinct technical-vocabulary terms found in
\* the text, technical_depth is high exactly when count >= 5, medium exactly
\* when 2 <= count < 5 and low exactly when count < 2
C38_TechnicalDepth ==
    IsStyle =>
        LET count == Cardinality(VocabularyFound(ret.text))
            depth == ret.analysis.technical_depth
        IN  /\ depth = "high" <=> count >= 5
            /\ depth = "medium" <=> (2 <= count /\ count < 5)
            /\ depth = "low" <=> count < 2
            /\ DepthRank(depth) = (IF count >= 5 THEN 2 ELSE IF count >= 2 THEN 1 ELSE 0)
C38_Witness ==
    /\ IsStyle
    /\ Cardinality(VocabularyFound(ret.text)) = 5
    /\ ret.analysis.technical_depth = "high"

\* The matches of the formal and of the casual patterns in the lowercased text
FormalCount(text) == CountWords(FormalWords, Lower(text)) + CountWordPairs(FormalPairs, Lower(text))
CasualCount(text) == CountWords(CasualWords, Lower(text))
\* C39: formality_score is exactly 0.5 when no formal and no casual pattern
\* matches, and formal / (formal + casual) otherwise; it is within [0, 1], 1
\* when only formal patterns match and 0 when only casual patterns match
C39_Formality ==
    IsStyle =>
        LET formal == FormalCount(ret.text)
            casual == CasualCount(ret.text)
            score == ret.analysis.formality_score
        IN  /\ (formal = 0 /\ casual = 0) => (score.n = 1 /\ score.d = 2)
            /\ (formal + casual > 0) => score.n * (formal + casual) = formal * score.d
            /\ score.d > 0 /\ 0 <= score.n /\ score.n <= score.d
            /\ (formal > 0 /\ casual = 0) => score.n = score.d
            /\ (casual > 0 /\ formal = 0) => score.n = 0
C39_Witness ==
    /\ IsStyle
    /\ FormalCount(ret.text) = 0 /\ CasualCount(ret.text) = 0
    /\ Len(ret.text) = MaxStyleWords
    /\ ret.analysis.formality_score = Frac(1, 2)
C39_WitnessMixed ==
    /\ IsStyle
    /\ FormalCount(ret.text) = 2 /\ CasualCount(ret.text) = 1
    /\ ret.analysis.formality_score = Frac(2, 3)

IsInsights == ret.op = "insights"
\* The value of highest count in a list and, among those, of earliest first
\* occurrence
FirstIndex(values, v) == CHOOSE i \in 1..Len(values) : values[i] = v /\ \A j \in 1..(i - 1) : values[j] # v
MostFrequent(values) ==
    {v \in Range(values) : \A w \in Range(values) : CountOf(values, w) <= CountOf(values, v)}
FirstMostFrequent(values) ==
    CHOOSE v \in MostFrequent(values) :
       \A w \in MostFrequent(values) : FirstIndex(values, v) <= FirstIndex(values, w)
DepthsOf(texts) == [i \in 1..Len(texts) |-> AnalyzeTechnicalDepth(Lower(texts[i]))]
LengthsOf(texts) == [i \in 1..Len(texts) |-> AnalyzeResponseLength(texts[i])]
TonesOf(texts) == [i \in 1..Len(texts) |-> AnalyzeCommunicationTone(Lower(texts[i]))]
\* C40: extract_insights over a non-empty list reports for technical depth,
\* response length and tone a value of maximal frequency among the per-text
\* analyses, and among tied values the one produced first in input order, so
\* the report is a function of the list; for an empty list the report is empty
C40_InsightsMode ==
    IsInsights =>
        IF ret.conversations = <<>> THEN ret.insights.empty
        ELSE /\ ~ret.insights.empty
             /\ ret.insights.preferred_technical_depth = FirstMostFrequent(DepthsOf(ret.conversations))
             /\ ret.insights.preferred_response_length = FirstMostFrequent(LengthsOf(ret.conversations))
             /\ ret.insights.preferred_tone = FirstMostFrequent(TonesOf(ret.conversations))
\* What holds of the report: each value has the highest count, and an empty
\* list gives an empty report
C40_MaximalFrequency ==
    IsInsights =>
        IF ret.conversations = <<>> THEN ret.insights.empty
        ELSE /\ ~ret.insights.empty
             /\ ret.insights.preferred_technical_depth \in MostFrequent(DepthsOf(ret.conversations))
             /\ ret.insights.preferred_response_length \in MostFrequent(LengthsOf(ret.conversations))
             /\ ret.insights.preferred_tone \in MostFrequent(TonesOf(ret.conversations))
             /\ ret.insights.conversation_count = Len(ret.conversations)
\* A report over two texts whose depths tie
C40_Tie ==
    /\ IsInsights
    /\ Len(ret.conversations) = 2
    /\ Cardinality(MostFrequent(DepthsOf(ret.conversations))) = 2
====
